---- MODULE Spec2Model ----
(***************************************************************************)
(* Dispatch and backpressure engine of rust_logger_system                  *)
(* (src/src/core/logger.rs): the dual-mode Logger, its bounded queue, the  *)
(* batching worker thread, the priority-aware overflow handling, the       *)
(* metrics counters and the shutdown / drop sequence.                      *)
(*                                                                         *)
(* A log record is represented by its issue number (its index in           *)
(* `entries`); message, timestamp and context are payload the dispatch     *)
(* code never inspects.  `entries` and `found_finished` are history        *)
(* variables: they record what happened; the program never reads them,     *)
(* they only bound and order the calls the environment makes.              *)
(***************************************************************************)
EXTENDS Integers, Sequences, FiniteSets, TLC

\* ---------------------------------------------------------------- bounds
NumCallers == 2
MaxLogs == 2
MaxSinks == 2
MaxBuffer == 1
MaxFaults == 1
MaxCount == 2
MaxCalls == 2
MaxLen == 3
MaxQueue == 3
MaxBackups == 3
MaxAttempts == 6
MaxSize == 2
MaxEngineLogs == 3
MaxDrops == 2001
MaxSends == 4

Callers == 1..NumCallers

\* ------------------------------------------------------ program constants
BATCH_SIZE == 50
MAX_DELETION_FAILURES == 5

Trace == 0
Debug == 1
Info == 2
Warn == 3
Error == 4
Fatal == 5
LogLevel == {Trace, Debug, Info, Warn, Error, Fatal}

\* Levels the callers log at: the default threshold itself (priority Normal)
\* and Error (priority Critical).  Levels given to set_min_level: the default
\* and the next level above it.
LoggedLevels == {Info, Error}
MinLevels == {Info, Warn}

OverflowPolicy == {"DropNewest", "DropOldest", "Block", "BlockWithTimeout", "AlertAndDrop"}

\* Result of one Appender::append / Appender::flush call.
Outcomes == {"ok", "err", "panic"}

VARIABLES
    min_level,        \* Logger.min_level
    appenders,        \* Logger.appenders: the sink registry, in registration order
    sender,           \* Logger.sender: "Some" or "None"
    async_handle,     \* Logger.async_handle is Some
    overflow_policy,  \* Logger.overflow_policy
    buffer_size,      \* capacity of the bounded channel (-1: synchronous logger)
    sampling,         \* the sampler's configuration (NoSampler: none configured)
    metrics,          \* LoggerMetrics: the five counters
    alerts,           \* drop counts reported by alert_and_drop (stderr + callback)
    queue,            \* records buffered in the channel
    batch,            \* the worker's local batch
    wpc,              \* position of the worker thread
    widx,             \* process_batch: index of the next entry of the batch
    wlast,            \* worker is flushing its remaining batch after channel closure
    lock,             \* holder of the appenders RwLock write guard
    pc,               \* position of each caller thread inside a log call
    pend,             \* the entry a caller thread is holding inside a log call
    owner,            \* position of the thread holding &mut Logger (shutdown / drop)
    shutdown_ret,     \* result of the shutdown() call that is returning
    entries,          \* history: every record issued, with level, thread, fate
    found_finished,   \* what the running shutdown / drop saw of the worker
    faults,           \* number of sink calls that failed so far
    mret,             \* LoggerMetrics on its own: value returned by a thread's last record_* call
    rpc,              \* LoggerMetrics on its own: number of stores a thread's reset() has done
    mcalls,           \* history: record_* calls on each counter since it was last stored to
    smetrics,         \* LogSampler.metrics: SamplerMetrics, three counters
    spc,              \* LogSampler on its own: position of each thread inside should_sample
    sres,             \* LogSampler on its own: arguments and result of a thread's last call
    scalls,           \* history: number of should_sample calls that have returned
    lentry,           \* LogEntry on its own: the entry LogEntry::new built last
    rfiles,           \* RotatingFileAppender: the log directory, file name -> content
    rapp,             \* RotatingFileAppender: the appender's fields
    rhist,            \* history: rotations attempted, and the files rotated out so far
    seen,             \* alert_and_drop on its own: the count each thread got from record_dropped
    napp,             \* a NetworkAppender on its own: its stream and reconnect_on_error
    nhist             \* history: what each append call on it did

vars == <<min_level, appenders, sender, async_handle, overflow_policy, buffer_size, sampling,
          metrics, alerts, queue, batch, wpc, widx, wlast, lock, pc, pend, owner,
          shutdown_ret, entries, found_finished, faults,
          mret, rpc, mcalls, smetrics, spc, sres, scalls, lentry,
          rfiles, rapp, rhist, seen, napp, nhist>>

\* ------------------------------------------------------------- metrics.rs
NewMetrics == [dropped_count |-> 0, total_logged |-> 0, queue_full_events |-> 0,
               block_events |-> 0, critical_logs_preserved |-> 0]

record_dropped(m) == [m EXCEPT !.dropped_count = @ + 1]
\* Variant of record_logged whose increment is lost.
record_logged_Lost(m) == m
record_logged(m) == [m EXCEPT !.total_logged = @ + 1]
record_queue_full(m) == [m EXCEPT !.queue_full_events = @ + 1]
\* Variant of record_block that counts every blocking event twice.
record_block_Twice(m) == [m EXCEPT !.block_events = @ + 2]
record_block(m) == [m EXCEPT !.block_events = @ + 1]
\* Variant of record_critical_preserved that counts nothing.
record_critical_preserved_Nothing(m) == m
record_critical_preserved(m) == [m EXCEPT !.critical_logs_preserved = @ + 1]

\* ------------------------------------------------- priority classification
priority(level) ==
    IF level \in {Error, Fatal} THEN "Critical"
    ELSE IF level = Warn THEN "High"
    ELSE "Normal"

\* --------------------------------------------------------- sink fan-out
\* One sink: the append calls made on it (record, success) and whether it
\* holds appended data that no successful flush has pushed out yet.
NewSink == [calls |-> <<>>, dirty |-> FALSE]

\* Index of the first sink whose call does not return Ok (Len + 1 if none).
FirstBad(outs) ==
    IF \E i \in DOMAIN outs : outs[i] # "ok"
    THEN CHOOSE i \in DOMAIN outs : outs[i] # "ok" /\ \A j \in 1..(i-1) : outs[j] = "ok"
    ELSE Len(outs) + 1

\* Number of append calls made on the sinks so far.
RECURSIVE TotalCalls(_)
TotalCalls(apps) ==
    IF apps = <<>> THEN 0 ELSE Len(Head(apps).calls) + TotalCalls(Tail(apps))

\* Variant of AppendAll that stops at the first sink that fails.
AppendAll_StopAtFailure(apps, id, outs) ==
    [i \in 1..Len(apps) |->
        IF i <= FirstBad(outs)
        THEN [apps[i] EXCEPT !.calls = Append(@, [id |-> id, ok |-> (outs[i] = "ok"),
                                                  seq |-> TotalCalls(apps) + i]),
                             !.dirty = @ \/ (outs[i] = "ok")]
        ELSE apps[i]]

\* Variant of AppendAll that leaves the loop after the first sink.
AppendAll_FirstOnly(apps, id, outs) ==
    [i \in 1..Len(apps) |->
        IF i = 1
        THEN [apps[i] EXCEPT !.calls = Append(@, [id |-> id, ok |-> (outs[i] = "ok"),
                                                  seq |-> TotalCalls(apps) + i]),
                             !.dirty = @ \/ (outs[i] = "ok")]
        ELSE apps[i]]

\* Variant of AppendAll that walks the registry from its last sink to its first.
AppendAll_Backwards(apps, id, outs) ==
    [i \in 1..Len(apps) |->
        [apps[i] EXCEPT !.calls = Append(@, [id |-> id, ok |-> (outs[i] = "ok"),
                                             seq |-> TotalCalls(apps) + Len(apps) + 1 - i]),
                        !.dirty = @ \/ (outs[i] = "ok")]]

\* The per-appender loop of process_batch / process_sync: append is invoked on
\* every sink in registration order, whatever the earlier sinks returned.  seq
\* numbers the append calls in the order in which they are made.
AppendAll(apps, id, outs) ==
    [i \in 1..Len(apps) |->
        [apps[i] EXCEPT !.calls = Append(@, [id |-> id, ok |-> (outs[i] = "ok"),
                                             seq |-> TotalCalls(apps) + i]),
                        !.dirty = @ \/ (outs[i] = "ok")]]

\* Variant of HasError that looks at the first sink only.
HasError_FirstSinkOnly(outs) == outs # <<>> /\ outs[1] # "ok"

\* has_error after the per-appender loop.
HasError(outs) == \E i \in DOMAIN outs : outs[i] # "ok"

\* Variant of CountEntry that counts nothing for a record a sink failed on.
CountEntry_SkipFailed(m, outs) == IF HasError(outs) THEN m ELSE record_logged(m)

\* Counter update at the end of the per-entry fan-out.
CountEntry(m, outs) == IF HasError(outs) THEN record_dropped(m) ELSE record_logged(m)

\* Variant of FlushAllIsolated that flushes the first sink only.
FlushAllIsolated_FirstOnly(apps, outs) ==
    [i \in 1..Len(apps) |-> [apps[i] EXCEPT !.dirty = @ /\ (i > 1 \/ outs[i] # "ok")]]

\* The flush loop of process_batch: every sink is flushed, failures are isolated.
FlushAllIsolated(apps, outs) ==
    [i \in 1..Len(apps) |-> [apps[i] EXCEPT !.dirty = @ /\ (outs[i] # "ok")]]

\* Logger::flush: `appender.flush()?` stops at the first sink whose flush does
\* not return Ok; a panic unwinds out of the call.
FlushResult(outs) == IF FirstBad(outs) > Len(outs) THEN "ok" ELSE outs[FirstBad(outs)]

\* Variant of FlushShortCircuit that flushes nothing.
FlushShortCircuit_Nothing(apps, outs) == apps

FlushShortCircuit(apps, outs) ==
    [i \in 1..Len(apps) |->
        IF i <= FirstBad(outs) /\ outs[i] = "ok"
        THEN [apps[i] EXCEPT !.dirty = FALSE]
        ELSE apps[i]]

NumFailed(outs) == Cardinality({i \in DOMAIN outs : outs[i] # "ok"})

\* The sinks are the environment: each call returns Ok, returns Err or panics.
\* At most MaxFaults calls fail in one run.
OutcomeVectors(n) == {outs \in [1..n -> Outcomes] : faults + NumFailed(outs) <= MaxFaults}

\* ------------------------------------------------------------------ Init
\* The logger has no sampler.
NoSampler == [rate |-> "none", always_sample |-> {}]

\* SamplerMetrics::new()
NewSamplerMetrics == [sampled_count |-> 0, dropped_count |-> 0, total_count |-> 0]

\* No thread has called should_sample yet.
NoCall == [level |-> -1, category |-> "none", throughput |-> 0, rate |-> <<0, 1>>,
           result |-> FALSE]

\* LogEntry::new has not been called yet.
NoEntry == [input |-> <<>>, message |-> <<>>, built |-> FALSE]

\* No RotatingFileAppender has been created.
NoFiles == <<>>
NoAppender == [open |-> FALSE]
NoRotation == [attempts |-> 0, rotated |-> <<>>]

\* Nothing has been done yet with the metrics or the sampler on their own.
CountersIdle ==
    /\ mret = [c \in Callers |-> -1]
    /\ rpc = [c \in Callers |-> 0]
    /\ mcalls = [k \in DOMAIN NewMetrics |-> 0]
    /\ smetrics = NewSamplerMetrics
    /\ spc = [c \in Callers |-> "idle"]
    /\ sres = [c \in Callers |-> NoCall]
    /\ scalls = 0

RotatingIdle ==
    /\ rfiles = NoFiles
    /\ rapp = NoAppender
    /\ rhist = NoRotation

\* No NetworkAppender has been created.
NetworkIdle == napp = [open |-> FALSE] /\ nhist = <<>>

\* No thread is inside alert_and_drop.
NotDropping == [c \in Callers |-> -1]

\* Nothing has been done yet with the components modelled on their own.
ComponentsIdle ==
    /\ CountersIdle
    /\ lentry = NoEntry
    /\ RotatingIdle
    /\ seen = NotDropping
    /\ NetworkIdle

\* Logger::new() (synchronous) or Logger::with_async_config(buffer_size, policy, _).
Init ==
    /\ min_level = Info
    /\ appenders = <<>>
    /\ \/ /\ sender = "None"
          /\ async_handle = FALSE
          /\ buffer_size = -1
          /\ overflow_policy = "AlertAndDrop"
          /\ wpc = "none"
       \/ /\ sender = "Some"
          /\ async_handle = TRUE
          /\ buffer_size \in 0..MaxBuffer
          /\ overflow_policy \in OverflowPolicy
          /\ wpc = "recv"
    /\ sampling = NoSampler
    /\ metrics = NewMetrics
    /\ alerts = <<>>
    /\ queue = <<>>
    /\ batch = <<>>
    /\ widx = 0
    /\ wlast = FALSE
    /\ lock = "free"
    /\ pc = [c \in Callers |-> "idle"]
    /\ pend = [c \in Callers |-> 0]
    /\ owner = "idle"
    /\ shutdown_ret = "none"
    /\ entries = <<>>
    /\ found_finished = "none"
    /\ faults = 0
    /\ ComponentsIdle

\* ------------------------------------------------------ the bounded channel
\* crossbeam bounded(n).  For n >= 1 a FIFO buffer of n slots.  For n = 0 a
\* rendezvous channel: try_send succeeds only while the receiver is parked in
\* recv(), and the record is handed to it directly.
ChannelFull ==
    IF buffer_size = 0 THEN wpc # "recv" ELSE Len(queue) >= buffer_size

ChannelPush(q, id) == Append(q, id)

\* Variant of BatchPush that inserts at the front of the batch.
BatchPush_Front(b, id) == <<id>> \o b

\* Variant of BatchPush that slips the entry in before the last one collected.
BatchPush_BeforeLast(b, id) ==
    IF b = <<>> THEN <<id>> ELSE SubSeq(b, 1, Len(b) - 1) \o <<id, b[Len(b)]>>

\* `batch.push(entry)` in the worker loop.
BatchPush(b, id) == Append(b, id)

Enqueue(id) ==
    IF buffer_size = 0
    THEN /\ batch' = BatchPush(batch, id)
         /\ wpc' = "drain1"
         /\ UNCHANGED queue
    ELSE /\ queue' = ChannelPush(queue, id)
         /\ UNCHANGED <<batch, wpc>>

\* Variant of RecvDisconnected that gives up as soon as the sender is gone.
RecvDisconnected_AtClose(q, s) == s = "None"

\* recv() reports disconnection only when no sender is left and the buffer is empty.
RecvDisconnected(q, s) == q = <<>> /\ s = "None"

\* ------------------------------------------------------------ log calls
NewEntry(lvl, c, fate) == [level |-> lvl, thread |-> c, fate |-> fate, fan |-> -1]

Admitted(e) == e.fate # "filtered"

\* Variant of BelowMinLevel that also rejects the threshold itself.
BelowMinLevel_Inclusive(lvl, min) == lvl <= min

\* `level < *self.min_level.read()`
BelowMinLevel(lvl, min) == lvl < min

\* Variant of OverflowAction without the Critical bypass.
OverflowAction_NoBypass(policy, prio) ==
    CASE policy = "DropNewest" -> "drop"
      [] policy = "DropOldest" -> "alert_and_drop"
      [] policy = "Block" -> "block"
      [] policy = "BlockWithTimeout" -> "block_timeout"
      [] policy = "AlertAndDrop" -> "alert_and_drop"

\* Variant of OverflowAction in which Block gives up like DropNewest.
OverflowAction_BlockDrops(policy, prio) ==
    IF prio = "Critical" THEN "force_write"
    ELSE CASE policy = "DropNewest" -> "drop"
           [] policy = "DropOldest" -> "alert_and_drop"
           [] policy = "Block" -> "drop"
           [] policy = "BlockWithTimeout" -> "block_timeout"
           [] policy = "AlertAndDrop" -> "alert_and_drop"

\* Variant of OverflowAction in which DropNewest raises the alert as well.
OverflowAction_DropNewestAlerts(policy, prio) ==
    IF prio = "Critical" THEN "force_write"
    ELSE CASE policy = "DropNewest" -> "alert_and_drop"
           [] policy = "DropOldest" -> "alert_and_drop"
           [] policy = "Block" -> "block"
           [] policy = "BlockWithTimeout" -> "block_timeout"
           [] policy = "AlertAndDrop" -> "alert_and_drop"

\* handle_overflow: what is done with a record that met a full queue.
OverflowAction(policy, prio) ==
    IF prio = "Critical" THEN "force_write"
    ELSE CASE policy = "DropNewest" -> "drop"
           [] policy = "DropOldest" -> "alert_and_drop"
           [] policy = "Block" -> "block"
           [] policy = "BlockWithTimeout" -> "block_timeout"
           [] policy = "AlertAndDrop" -> "alert_and_drop"

ALERT_PERIOD == 1000

\* Variant of should_alert that tests the count before the increment.
should_alert_Before(dropped_count) ==
    dropped_count = 0 \/ (dropped_count % ALERT_PERIOD = 0)

\* alert_and_drop: record_dropped() returns the count before the increment.
should_alert(dropped_count) ==
    dropped_count = 0 \/ ((dropped_count + 1) % ALERT_PERIOD = 0)

alert_and_drop(m) ==
    /\ metrics' = record_dropped(m)
    /\ alerts' = IF should_alert(m.dropped_count)
                 THEN Append(alerts, m.dropped_count + 1)
                 ELSE alerts

\* LoggerMetrics and LogSampler as components used on their own, outside a
\* logger's log calls.
ExtraVars == <<lentry, rfiles, rapp, rhist, seen, napp, nhist>>
ComponentVars == <<mret, rpc, mcalls, smetrics, spc, sres, scalls, ExtraVars>>

\* What no operation of the logger changes: its configuration, and the
\* components' own bookkeeping.
ConfigVars == <<overflow_policy, buffer_size, sampling, ComponentVars>>
WorkerVars == <<batch, wpc, widx, wlast>>
OwnerVars == <<owner, shutdown_ret, sender, async_handle, found_finished>>

handle_overflow(c, id, lvl) ==
    LET act == OverflowAction(overflow_policy, priority(lvl)) IN
    /\ UNCHANGED <<queue, batch, wpc>>
    /\ CASE act = "force_write" ->
              /\ metrics' = record_critical_preserved(record_queue_full(metrics))
              /\ pc' = [pc EXCEPT ![c] = "crit_wait"]
              /\ pend' = [pend EXCEPT ![c] = id]
              /\ entries' = Append(entries, NewEntry(lvl, c, "critical"))
              /\ UNCHANGED alerts
         [] act = "drop" ->
              /\ metrics' = record_dropped(record_queue_full(metrics))
              /\ entries' = Append(entries, NewEntry(lvl, c, "dropped"))
              /\ UNCHANGED <<pc, pend, alerts>>
         [] act = "alert_and_drop" ->
              /\ alert_and_drop(record_queue_full(metrics))
              /\ entries' = Append(entries, NewEntry(lvl, c, "dropped"))
              /\ UNCHANGED <<pc, pend>>
         [] act \in {"block", "block_timeout"} ->
              /\ metrics' = record_block(record_queue_full(metrics))
              /\ pc' = [pc EXCEPT ![c] = "blocked"]
              /\ pend' = [pend EXCEPT ![c] = id]
              /\ entries' = Append(entries, NewEntry(lvl, c, "blocked"))
              /\ UNCHANGED alerts

send_entry(c, id, lvl) ==
    IF sender = "Some"
    THEN IF ~ChannelFull
         THEN /\ Enqueue(id)
              /\ entries' = Append(entries, NewEntry(lvl, c, "queued"))
              /\ UNCHANGED <<metrics, alerts, pc, pend>>
         ELSE handle_overflow(c, id, lvl)
    ELSE /\ pc' = [pc EXCEPT ![c] = "sync_wait"]
         /\ pend' = [pend EXCEPT ![c] = id]
         /\ entries' = Append(entries, NewEntry(lvl, c, "sync"))
         /\ UNCHANGED <<metrics, alerts, queue, batch, wpc>>

\* Caller threads are interchangeable: they are numbered in the order of their
\* first log call.
FirstCallOrder(c) == \A d \in 1..(c-1) : \E i \in DOMAIN entries : entries[i].thread = d

\* A log call, as long as fewer than n records have been issued.
LogCallWithin(c, lvl, n) ==
    /\ owner = "idle"
    /\ FirstCallOrder(c)
    /\ pc[c] = "idle"
    /\ Len(entries) < n
    /\ IF BelowMinLevel(lvl, min_level)
       THEN /\ entries' = Append(entries, NewEntry(lvl, c, "filtered"))
            /\ UNCHANGED <<metrics, alerts, queue, batch, wpc, pc, pend>>
       ELSE send_entry(c, Len(entries) + 1, lvl)
    /\ UNCHANGED <<min_level, appenders, ConfigVars, widx, wlast, lock, OwnerVars, faults>>

LogCall(c, lvl) == LogCallWithin(c, lvl, MaxLogs)

\* Logger::log
Log(c, lvl) == LogCall(c, lvl)

\* Logger::log_with_context: same filter and dispatch, the entry carries a context.
LogWithContext(c, lvl) == LogCall(c, lvl)

\* ------------------------------------------------------------- sampling
\* A rate (f64) is a fraction <<numerator, denominator>>, denominator > 0.
FracLE(a, b) == a[1] * b[2] <= b[1] * a[2]
FracMul(a, b) == <<a[1] * b[1], a[2] * b[2]>>
FracMax(a, b) == IF FracLE(a, b) THEN b ELSE a

Zero == <<0, 1>>
One == <<1, 1>>
Rates == {Zero, <<1, 4>>, <<1, 2>>, One}

\* category: Option<&str>
Categories == {"none", "db", "web"}

\* category_rates: no override, or an override for "db".
CategoryRates == {<<>>} \union {[c \in {"db"} |-> r] : r \in {Zero, <<1, 2>>, One}}

\* adaptive_threshold, and the throughput record_and_get_rate can measure
\* (messages per second; 0 when no time has elapsed).
Thresholds == {1, 2}
Throughputs == {0, 1, 2, 4}

\* SamplingConfig.  Without with_adaptive the adaptive parameters keep their
\* defaults and are never read.
SamplingConfigs ==
    [rate : Rates, always_sample : {{}, {Error, Fatal}}, category_rates : CategoryRates,
     adaptive : {FALSE}, adaptive_threshold : {2}, adaptive_min_rate : {Zero}]
    \union
    [rate : Rates, always_sample : {{}, {Error, Fatal}}, category_rates : CategoryRates,
     adaptive : {TRUE}, adaptive_threshold : Thresholds,
     adaptive_min_rate : {Zero, <<1, 4>>, <<1, 2>>}]

\* The configurations of a logger's sampler: a base rate and always_sample.
LoggerSamplingConfigs ==
    {cfg \in SamplingConfigs :
        /\ cfg.category_rates = <<>>
        /\ ~cfg.adaptive
        /\ cfg.rate \in {Zero, <<1, 2>>, One}}

\* Variant of get_effective_rate that looks at the adaptive rate before the
\* category override.
get_effective_rate_AdaptiveFirst(cfg, category, current_rate) ==
    IF cfg.adaptive /\ current_rate > cfg.adaptive_threshold
    THEN FracMax(FracMul(cfg.rate, <<cfg.adaptive_threshold, current_rate>>),
                 cfg.adaptive_min_rate)
    ELSE IF category \in DOMAIN cfg.category_rates
    THEN cfg.category_rates[category]
    ELSE cfg.rate

\* LogSampler::get_effective_rate; current_rate is what record_and_get_rate
\* measures in this call.
get_effective_rate(cfg, category, current_rate) ==
    IF category \in DOMAIN cfg.category_rates
    THEN cfg.category_rates[category]
    ELSE IF cfg.adaptive /\ current_rate > cfg.adaptive_threshold
    THEN FracMax(FracMul(cfg.rate, <<cfg.adaptive_threshold, current_rate>>),
                 cfg.adaptive_min_rate)
    ELSE cfg.rate

\* The values a call can return for an effective rate (the random draw
\* against a rate strictly between 0 and 1 can go either way).
SampleAtRate(rate) ==
    IF FracLE(One, rate) THEN {TRUE}
    ELSE IF FracLE(rate, Zero) THEN {FALSE}
    ELSE {TRUE, FALSE}

\* Variant of should_sample that does not consult always_sample.
should_sample_RateOnly(cfg, level, category, current_rate) ==
    SampleAtRate(get_effective_rate(cfg, category, current_rate))

\* Variant of should_sample in which a category override beats always_sample.
should_sample_OverrideFirst(cfg, level, category, current_rate) ==
    IF level \in cfg.always_sample /\ category \notin DOMAIN cfg.category_rates
    THEN {TRUE}
    ELSE SampleAtRate(get_effective_rate(cfg, category, current_rate))

\* LogSampler::should_sample: the values the call can return.
should_sample(cfg, level, category, current_rate) ==
    IF level \in cfg.always_sample THEN {TRUE}
    ELSE SampleAtRate(get_effective_rate(cfg, category, current_rate))

\* log / log_with_context of a logger built with a sampler: after the level
\* filter the sampler is asked; a rejected record goes no further.
SampledLog(c, lvl) ==
    /\ sampling # NoSampler
    /\ owner = "idle"
    /\ FirstCallOrder(c)
    /\ pc[c] = "idle"
    /\ Len(entries) < MaxLogs
    /\ IF BelowMinLevel(lvl, min_level)
       THEN /\ entries' = Append(entries, NewEntry(lvl, c, "filtered"))
            /\ UNCHANGED <<metrics, alerts, queue, batch, wpc, pc, pend>>
       ELSE \E keep \in should_sample(sampling, lvl, "none", 0) :
               IF keep
               THEN send_entry(c, Len(entries) + 1, lvl)
               ELSE /\ entries' = Append(entries, NewEntry(lvl, c, "sampled_out"))
                    /\ UNCHANGED <<metrics, alerts, queue, batch, wpc, pc, pend>>
    /\ UNCHANGED <<min_level, appenders, ConfigVars, widx, wlast, lock, OwnerVars, faults>>

\* Variant of process_sync that calls into the sinks without the registry lock.
process_sync_NoLock(c) ==
    /\ pc[c] \in {"sync_wait", "crit_wait"}
    /\ \E outs \in OutcomeVectors(Len(appenders)) :
          /\ appenders' = AppendAll(appenders, pend[c], outs)
          /\ metrics' = CountEntry(metrics, outs)
          /\ faults' = faults + NumFailed(outs)
    /\ entries' = [entries EXCEPT ![pend[c]].fan = Len(appenders)]
    /\ pc' = [pc EXCEPT ![c] = "idle"]
    /\ pend' = [pend EXCEPT ![c] = 0]
    /\ UNCHANGED <<min_level, ConfigVars, alerts, queue, WorkerVars, lock, OwnerVars>>

\* process_sync under the registry write lock: the synchronous path of
\* send_entry and force_write_critical (try_write, else write).
process_sync(c) ==
    /\ pc[c] \in {"sync_wait", "crit_wait"}
    /\ lock = "free"
    /\ \E outs \in OutcomeVectors(Len(appenders)) :
          /\ appenders' = AppendAll(appenders, pend[c], outs)
          /\ metrics' = CountEntry(metrics, outs)
          /\ faults' = faults + NumFailed(outs)
    /\ entries' = [entries EXCEPT ![pend[c]].fan = Len(appenders)]
    /\ pc' = [pc EXCEPT ![c] = "idle"]
    /\ pend' = [pend EXCEPT ![c] = 0]
    /\ UNCHANGED <<min_level, ConfigVars, alerts, queue, WorkerVars, lock, OwnerVars>>

\* Variant of SendComplete that counts the enqueued record as dropped too.
SendComplete_CountsDrop(c) ==
    /\ pc[c] = "blocked"
    /\ ~ChannelFull
    /\ Enqueue(pend[c])
    /\ entries' = [entries EXCEPT ![pend[c]].fate = "queued"]
    /\ pc' = [pc EXCEPT ![c] = "idle"]
    /\ pend' = [pend EXCEPT ![c] = 0]
    /\ metrics' = record_dropped(metrics)
    /\ UNCHANGED <<min_level, appenders, ConfigVars, alerts, widx, wlast, lock,
                   OwnerVars, faults>>

\* sender.send / send_timeout returning Ok: space became available.
SendComplete(c) ==
    /\ pc[c] = "blocked"
    /\ ~ChannelFull
    /\ Enqueue(pend[c])
    /\ entries' = [entries EXCEPT ![pend[c]].fate = "queued"]
    /\ pc' = [pc EXCEPT ![c] = "idle"]
    /\ pend' = [pend EXCEPT ![c] = 0]
    /\ UNCHANGED <<min_level, appenders, ConfigVars, metrics, alerts, widx, wlast, lock,
                   OwnerVars, faults>>

\* Variant of SendTimeout in which the record counted as dropped has also
\* gone into the queue.
SendTimeout_AlsoSent(c) ==
    /\ pc[c] = "blocked"
    /\ overflow_policy = "BlockWithTimeout"
    /\ alert_and_drop(metrics)
    /\ IF ChannelFull THEN UNCHANGED <<queue, WorkerVars>>
       ELSE Enqueue(pend[c]) /\ UNCHANGED <<widx, wlast>>
    /\ entries' = [entries EXCEPT ![pend[c]].fate = "dropped"]
    /\ pc' = [pc EXCEPT ![c] = "idle"]
    /\ pend' = [pend EXCEPT ![c] = 0]
    /\ UNCHANGED <<min_level, appenders, ConfigVars, lock, OwnerVars, faults>>

\* send_timeout returning Timeout: the record is dropped with an alert.
SendTimeout(c) ==
    /\ pc[c] = "blocked"
    /\ overflow_policy = "BlockWithTimeout"
    /\ alert_and_drop(metrics)
    /\ entries' = [entries EXCEPT ![pend[c]].fate = "dropped"]
    /\ pc' = [pc EXCEPT ![c] = "idle"]
    /\ pend' = [pend EXCEPT ![c] = 0]
    /\ UNCHANGED <<min_level, appenders, ConfigVars, queue, WorkerVars, lock, OwnerVars,
                   faults>>

\* Logger::flush called by a caller thread, under the registry write lock.
flush(c) ==
    /\ owner = "idle"
    /\ pc[c] = "idle"
    /\ lock = "free"
    /\ \E outs \in OutcomeVectors(Len(appenders)) :
          /\ appenders' = FlushShortCircuit(appenders, outs)
          /\ faults' = faults + NumFailed(outs)
    /\ UNCHANGED <<min_level, ConfigVars, metrics, alerts, queue, WorkerVars, lock, pc, pend,
                   OwnerVars, entries>>

\* --------------------------------------------------------- worker thread
\* What a try_recv() can take: the head of the buffer, or (rendezvous channel)
\* the entry of a caller blocked in send.
BlockedCallers == {c \in Callers : pc[c] = "blocked"}

CanTryRecv ==
    IF buffer_size = 0 THEN BlockedCallers # {} ELSE queue # <<>>

TryRecv ==
    IF buffer_size = 0
    THEN \E c \in BlockedCallers :
            /\ batch' = BatchPush(batch, pend[c])
            /\ entries' = [entries EXCEPT ![pend[c]].fate = "queued"]
            /\ pc' = [pc EXCEPT ![c] = "idle"]
            /\ pend' = [pend EXCEPT ![c] = 0]
            /\ UNCHANGED queue
    ELSE /\ batch' = BatchPush(batch, Head(queue))
         /\ queue' = Tail(queue)
         /\ UNCHANGED <<entries, pc, pend>>

\* receiver.recv(): Ok(entry) pushes the entry, Err (channel closed and empty)
\* flushes a remaining batch and leaves the loop.
WorkerRecv ==
    /\ wpc = "recv"
    /\ \/ /\ buffer_size # 0
          /\ queue # <<>>
          /\ batch' = BatchPush(batch, Head(queue))
          /\ queue' = Tail(queue)
          /\ wpc' = "drain1"
          /\ UNCHANGED wlast
       \/ /\ RecvDisconnected(queue, sender)
          /\ wpc' = IF batch = <<>> THEN "done" ELSE "lock"
          /\ wlast' = (batch # <<>>)
          /\ UNCHANGED <<queue, batch>>
    /\ UNCHANGED <<min_level, appenders, ConfigVars, metrics, alerts, widx, lock, pc, pend,
                   OwnerVars, entries, faults>>

\* Variant of WorkerDrain1 whose loop has no batch cap.
WorkerDrain1_NoCap ==
    /\ wpc = "drain1"
    /\ IF CanTryRecv
       THEN TryRecv /\ UNCHANGED wpc
       ELSE /\ wpc' = "drain2"
            /\ UNCHANGED <<queue, batch, entries, pc, pend>>
    /\ UNCHANGED <<min_level, appenders, ConfigVars, metrics, alerts, widx, wlast, lock,
                   OwnerVars, faults>>

\* First `while batch.len() < BATCH_SIZE { try_recv }` loop, one iteration.
\* Leaving it with a full batch goes straight to process_batch; otherwise the
\* worker sleeps BATCH_TIMEOUT_MS and enters the second loop.
WorkerDrain1 ==
    /\ wpc = "drain1"
    /\ IF Len(batch) < BATCH_SIZE /\ CanTryRecv
       THEN TryRecv /\ UNCHANGED wpc
       ELSE /\ wpc' = IF Len(batch) >= BATCH_SIZE THEN "lock" ELSE "drain2"
            /\ UNCHANGED <<queue, batch, entries, pc, pend>>
    /\ UNCHANGED <<min_level, appenders, ConfigVars, metrics, alerts, widx, wlast, lock,
                   OwnerVars, faults>>

\* Second try_recv loop, one iteration; then the batch is processed.
WorkerDrain2 ==
    /\ wpc = "drain2"
    /\ IF Len(batch) < BATCH_SIZE /\ CanTryRecv
       THEN TryRecv /\ UNCHANGED wpc
       ELSE /\ wpc' = "lock"
            /\ UNCHANGED <<queue, batch, entries, pc, pend>>
    /\ UNCHANGED <<min_level, appenders, ConfigVars, metrics, alerts, widx, wlast, lock,
                   OwnerVars, faults>>

\* process_batch: `appenders.write()`, then one iteration of `for entry in batch`
\* per step.
WorkerAppend ==
    /\ \/ wpc = "lock" /\ lock = "free"
       \/ wpc = "append"
    /\ LET k == IF wpc = "lock" THEN 1 ELSE widx IN
       /\ \E outs \in OutcomeVectors(Len(appenders)) :
             /\ appenders' = AppendAll(appenders, batch[k], outs)
             /\ metrics' = CountEntry(metrics, outs)
             /\ faults' = faults + NumFailed(outs)
       /\ entries' = [entries EXCEPT ![batch[k]].fan = Len(appenders)]
       /\ IF k < Len(batch)
          THEN widx' = k + 1 /\ wpc' = "append"
          ELSE widx' = 0 /\ wpc' = "flush"
    /\ lock' = "worker"
    /\ UNCHANGED <<min_level, ConfigVars, alerts, queue, batch, wlast, pc, pend,
                   OwnerVars>>

\* Variant of WorkerFlush that returns without releasing the registry lock.
WorkerFlush_KeepsLock ==
    /\ wpc = "flush"
    /\ \E outs \in OutcomeVectors(Len(appenders)) :
          /\ appenders' = FlushAllIsolated(appenders, outs)
          /\ faults' = faults + NumFailed(outs)
    /\ batch' = <<>>
    /\ wlast' = FALSE
    /\ wpc' = IF wlast THEN "done" ELSE "recv"
    /\ UNCHANGED <<min_level, ConfigVars, metrics, alerts, queue, widx, pc, pend,
                   OwnerVars, entries, lock>>

\* process_batch: the flush loop, then the guard is released; batch.clear().
WorkerFlush ==
    /\ wpc = "flush"
    /\ \E outs \in OutcomeVectors(Len(appenders)) :
          /\ appenders' = FlushAllIsolated(appenders, outs)
          /\ faults' = faults + NumFailed(outs)
    /\ lock' = "free"
    /\ batch' = <<>>
    /\ wlast' = FALSE
    /\ wpc' = IF wlast THEN "done" ELSE "recv"
    /\ UNCHANGED <<min_level, ConfigVars, metrics, alerts, queue, widx, pc, pend,
                   OwnerVars, entries>>

WorkerNext ==
    \/ WorkerRecv
    \/ WorkerDrain1
    \/ WorkerDrain2
    \/ WorkerAppend
    \/ WorkerFlush

\* ------------------------------------------- operations taking &mut Logger
\* &mut self excludes every other borrow of the logger: no log call is running.
Exclusive == owner = "idle" /\ \A c \in Callers : pc[c] = "idle"

add_appender ==
    /\ Exclusive
    /\ Len(appenders) < MaxSinks
    /\ \A i \in DOMAIN entries : ~Admitted(entries[i])
    /\ lock = "free"
    /\ appenders' = Append(appenders, NewSink)
    /\ UNCHANGED <<min_level, ConfigVars, metrics, alerts, queue, WorkerVars, lock, pc, pend,
                   OwnerVars, entries, faults>>

\* (Changed only while a log call can still follow.)
set_min_level(level) ==
    /\ Exclusive
    /\ Len(entries) < MaxLogs
    /\ min_level' = level
    /\ UNCHANGED <<appenders, ConfigVars, metrics, alerts, queue, WorkerVars, lock, pc, pend,
                   owner, shutdown_ret, sender, async_handle, found_finished,
                   entries, faults>>

\* shutdown: `drop(self.sender.take())`, then `self.async_handle.take()`.
ShutdownBegin ==
    /\ Exclusive
    /\ sender' = "None"
    /\ async_handle' = FALSE
    /\ owner' = IF async_handle THEN "sd_wait" ELSE "sd_flush"
    /\ found_finished' = IF async_handle THEN "waiting" ELSE "no_handle"
    /\ UNCHANGED <<min_level, appenders, ConfigVars, metrics, alerts, queue, WorkerVars, lock,
                   pc, pend, shutdown_ret, entries, faults>>

\* Variant of ShutdownResult that reports success whatever the flush returned.
ShutdownResult_IgnoreFlush(flush_result) ==
    CASE flush_result = "ok" -> "true"
      [] flush_result = "err" -> "true"
      [] flush_result = "panic" -> "panic"

\* Variant of ShutdownResult that never reports success.
ShutdownResult_AlwaysFalse(flush_result) ==
    CASE flush_result = "ok" -> "false"
      [] flush_result = "err" -> "false"
      [] flush_result = "panic" -> "panic"

\* Result of shutdown after its final `self.flush()`.
ShutdownResult(flush_result) ==
    CASE flush_result = "ok" -> "true"
      [] flush_result = "err" -> "false"
      [] flush_result = "panic" -> "panic"

\* shutdown: leaving the wait loop.  is_finished() -> join, break, and (the
\* worker has released the registry lock for good) the final flush; otherwise,
\* once the timeout has elapsed, return false.  (A turn that only sleeps
\* changes nothing.)
ShutdownPoll ==
    /\ owner = "sd_wait"
    /\ IF wpc = "done"
       THEN /\ found_finished' = "joined"
            /\ \E outs \in OutcomeVectors(Len(appenders)) :
                  /\ appenders' = FlushShortCircuit(appenders, outs)
                  /\ shutdown_ret' = ShutdownResult(FlushResult(outs))
                  /\ faults' = faults + NumFailed(outs)
       ELSE /\ found_finished' = "timeout"
            /\ shutdown_ret' = "false"
            /\ UNCHANGED <<appenders, faults>>
    /\ owner' = "sd_returned"
    /\ UNCHANGED <<min_level, ConfigVars, metrics, alerts, queue, WorkerVars, lock,
                   pc, pend, sender, async_handle, entries>>

\* shutdown: the final flush and the return value.
ShutdownFlush ==
    /\ owner = "sd_flush"
    /\ lock = "free"
    /\ \E outs \in OutcomeVectors(Len(appenders)) :
          /\ appenders' = FlushShortCircuit(appenders, outs)
          /\ shutdown_ret' = ShutdownResult(FlushResult(outs))
          /\ faults' = faults + NumFailed(outs)
    /\ owner' = "sd_returned"
    /\ UNCHANGED <<min_level, ConfigVars, metrics, alerts, queue, WorkerVars, lock, pc, pend,
                   sender, async_handle, found_finished, entries>>

\* The caller of shutdown has its result; the logger is usable again.
ShutdownReturn ==
    /\ owner = "sd_returned"
    /\ owner' = "idle"
    /\ shutdown_ret' = "none"
    /\ found_finished' = "none"
    /\ UNCHANGED <<min_level, appenders, ConfigVars, metrics, alerts, queue, WorkerVars, lock,
                   pc, pend, sender, async_handle, entries, faults>>

\* Drop for Logger: same sequence with DEFAULT_SHUTDOWN_TIMEOUT.
DropBegin ==
    /\ Exclusive
    /\ sender' = "None"
    /\ async_handle' = FALSE
    /\ owner' = IF async_handle THEN "drop_wait" ELSE "drop_flush"
    /\ found_finished' = IF async_handle THEN "waiting" ELSE "no_handle"
    /\ UNCHANGED <<min_level, appenders, ConfigVars, metrics, alerts, queue, WorkerVars, lock,
                   pc, pend, shutdown_ret, entries, faults>>

\* drop: leaving the wait loop.  The worker finished: join and final flush;
\* or the timeout elapsed: the flush follows once the registry lock is free.
DropPoll ==
    /\ owner = "drop_wait"
    /\ IF wpc = "done"
       THEN /\ found_finished' = "joined"
            /\ owner' = "gone"
            /\ \E outs \in OutcomeVectors(Len(appenders)) :
                  /\ appenders' = FlushShortCircuit(appenders, outs)
                  /\ faults' = faults + NumFailed(outs)
       ELSE /\ found_finished' = "timeout"
            /\ owner' = "drop_flush"
            /\ UNCHANGED <<appenders, faults>>
    /\ UNCHANGED <<min_level, ConfigVars, metrics, alerts, queue, WorkerVars, lock,
                   pc, pend, shutdown_ret, sender, async_handle, entries>>

\* drop: final flush (an error is only reported); the logger is gone afterwards.
DropFlush ==
    /\ owner = "drop_flush"
    /\ lock = "free"
    /\ \E outs \in OutcomeVectors(Len(appenders)) :
          /\ appenders' = FlushShortCircuit(appenders, outs)
          /\ faults' = faults + NumFailed(outs)
    /\ owner' = "gone"
    /\ UNCHANGED <<min_level, ConfigVars, metrics, alerts, queue, WorkerVars, lock, pc, pend,
                   shutdown_ret, sender, async_handle, found_finished, entries>>

\* ------------------------------------------------------------------ Next
Next ==
    \/ \E c \in Callers, lvl \in LoggedLevels : Log(c, lvl)
    \/ \E c \in Callers, lvl \in LoggedLevels : LogWithContext(c, lvl)
    \/ \E c \in Callers : process_sync(c)
    \/ \E c \in Callers : SendComplete(c)
    \/ \E c \in Callers : SendTimeout(c)
    \/ \E c \in Callers : flush(c)
    \/ WorkerRecv
    \/ WorkerDrain1
    \/ WorkerDrain2
    \/ WorkerAppend
    \/ WorkerFlush
    \/ add_appender
    \/ \E level \in MinLevels : set_min_level(level)
    \/ ShutdownBegin
    \/ ShutdownPoll
    \/ ShutdownFlush
    \/ ShutdownReturn
    \/ DropBegin
    \/ DropPoll
    \/ DropFlush

Spec == Init /\ [][Next]_vars

\* The worker is a dedicated thread: it keeps being scheduled.  Callers and
\* the owner of the logger are under no obligation to act.
FairSpec == Spec /\ WF_vars(WorkerNext)

\* What a caller thread does next inside a log call it has begun.
CallerStep(c) == process_sync(c) \/ SendComplete(c) \/ SendTimeout(c)

\* The dispatch engine at work: an asynchronous logger whose sinks were
\* registered before the caller threads started, the callers' log and flush
\* calls, and the worker.
EngineInit ==
    /\ min_level = Info
    /\ appenders \in {<<>>, <<NewSink>>}
    /\ sender = "Some"
    /\ async_handle = TRUE
    /\ buffer_size \in 0..MaxBuffer
    /\ overflow_policy \in OverflowPolicy
    /\ wpc = "recv"
    /\ sampling = NoSampler
    /\ metrics = NewMetrics
    /\ alerts = <<>>
    /\ queue = <<>>
    /\ batch = <<>>
    /\ widx = 0
    /\ wlast = FALSE
    /\ lock = "free"
    /\ pc = [c \in Callers |-> "idle"]
    /\ pend = [c \in Callers |-> 0]
    /\ owner = "idle"
    /\ shutdown_ret = "none"
    /\ entries = <<>>
    /\ found_finished = "none"
    /\ faults = 0
    /\ ComponentsIdle

EngineLog(c, lvl) == LogCallWithin(c, lvl, MaxEngineLogs)

EngineNext ==
    \/ \E c \in Callers, lvl \in LoggedLevels : EngineLog(c, lvl)
    \/ \E c \in Callers : process_sync(c)
    \/ \E c \in Callers : SendComplete(c)
    \/ \E c \in Callers : SendTimeout(c)
    \/ \E c \in Callers : flush(c)
    \/ WorkerRecv
    \/ WorkerDrain1
    \/ WorkerDrain2
    \/ WorkerAppend
    \/ WorkerFlush

\* Every thread that is inside a call keeps running: the worker, and each
\* caller between the start and the return of its log call.  Nobody is under
\* an obligation to start a call.
EngineSpec ==
    /\ EngineInit
    /\ [][EngineNext]_vars
    /\ WF_vars(WorkerNext)
    /\ \A c \in Callers : WF_vars(CallerStep(c))

\* PriorityConfig::default().  Neither Logger nor LoggerBuilder has a field
\* of this type: no logger is configured otherwise.
DefaultPriorityConfig ==
    [preserve_critical |-> TRUE, preserve_high |-> TRUE, block_on_critical |-> TRUE,
     high_priority_retry_count |-> 3]

\* Logger::warn and Logger::error: records of High and of Critical priority.
PriorityLog(c, lvl) == LogCallWithin(c, lvl, MaxEngineLogs)

\* The dispatch engine fed with Warn and Error records.
PriorityNext ==
    \/ \E c \in Callers, lvl \in {Warn, Error} : PriorityLog(c, lvl)
    \/ \E c \in Callers : process_sync(c)
    \/ \E c \in Callers : SendComplete(c)
    \/ \E c \in Callers : SendTimeout(c)
    \/ WorkerRecv
    \/ WorkerDrain1
    \/ WorkerDrain2
    \/ WorkerAppend
    \/ WorkerFlush

PrioritySpec == EngineInit /\ [][PriorityNext]_vars

\* A logger built with a sampler: synchronous, or asynchronous with DropNewest
\* and a one-slot buffer.
SampledInit ==
    /\ min_level = Info
    /\ appenders = <<>>
    /\ \/ /\ sender = "None"
          /\ async_handle = FALSE
          /\ buffer_size = -1
          /\ overflow_policy = "AlertAndDrop"
          /\ wpc = "none"
       \/ /\ sender = "Some"
          /\ async_handle = TRUE
          /\ buffer_size = 1
          /\ overflow_policy = "DropNewest"
          /\ wpc = "recv"
    /\ sampling \in LoggerSamplingConfigs
    /\ metrics = NewMetrics
    /\ alerts = <<>>
    /\ queue = <<>>
    /\ batch = <<>>
    /\ widx = 0
    /\ wlast = FALSE
    /\ lock = "free"
    /\ pc = [c \in Callers |-> "idle"]
    /\ pend = [c \in Callers |-> 0]
    /\ owner = "idle"
    /\ shutdown_ret = "none"
    /\ entries = <<>>
    /\ found_finished = "none"
    /\ faults = 0
    /\ ComponentsIdle

SampledNext ==
    \/ \E c \in Callers, lvl \in LoggedLevels : SampledLog(c, lvl)
    \/ \E c \in Callers : process_sync(c)
    \/ WorkerRecv
    \/ WorkerDrain1
    \/ WorkerDrain2
    \/ WorkerAppend
    \/ WorkerFlush
    \/ add_appender
    \/ \E level \in MinLevels : set_min_level(level)

SampledSpec == SampledInit /\ [][SampledNext]_vars

\* ------------------------------------------- LoggerMetrics on its own
\* Threads sharing one LoggerMetrics call record_* and reset() directly.
LoggerVars == <<min_level, appenders, sender, async_handle, overflow_policy, buffer_size,
                alerts, queue, batch, wpc, widx, wlast, lock, pc, pend, owner,
                shutdown_ret, entries, found_finished, faults>>

\* A synchronous logger nothing has been done with.
LoggerUnused ==
    /\ min_level = Info
    /\ appenders = <<>>
    /\ sender = "None"
    /\ async_handle = FALSE
    /\ buffer_size = -1
    /\ overflow_policy = "AlertAndDrop"
    /\ wpc = "none"
    /\ alerts = <<>>
    /\ queue = <<>>
    /\ batch = <<>>
    /\ widx = 0
    /\ wlast = FALSE
    /\ lock = "free"
    /\ pc = [c \in Callers |-> "idle"]
    /\ pend = [c \in Callers |-> 0]
    /\ owner = "idle"
    /\ shutdown_ret = "none"
    /\ entries = <<>>
    /\ found_finished = "none"
    /\ faults = 0

Counters == DOMAIN NewMetrics

\* The order in which reset() stores to the counters.
ResetOrder == <<"dropped_count", "total_logged", "queue_full_events", "block_events",
                "critical_logs_preserved">>

RecordOp(k, m) ==
    CASE k = "dropped_count" -> record_dropped(m)
      [] k = "total_logged" -> record_logged(m)
      [] k = "queue_full_events" -> record_queue_full(m)
      [] k = "block_events" -> record_block(m)
      [] k = "critical_logs_preserved" -> record_critical_preserved(m)

\* Thread t calls the record_* method of counter k: one fetch_add(1), which
\* returns the value before the increment.
RecordCall(t, k) ==
    /\ rpc[t] = 0
    /\ metrics[k] < MaxCount
    /\ metrics' = RecordOp(k, metrics)
    /\ mret' = [mret EXCEPT ![t] = metrics[k]]
    /\ mcalls' = [mcalls EXCEPT ![k] = @ + 1]
    /\ UNCHANGED <<LoggerVars, sampling, rpc, smetrics, spc, sres, scalls, ExtraVars>>

\* Thread t inside reset(): its next store(0), one counter per step.
reset(t) ==
    LET k == ResetOrder[rpc[t] + 1] IN
    /\ metrics' = [metrics EXCEPT ![k] = 0]
    /\ mcalls' = [mcalls EXCEPT ![k] = 0]
    /\ rpc' = [rpc EXCEPT ![t] = (@ + 1) % Len(ResetOrder)]
    /\ UNCHANGED <<LoggerVars, sampling, mret, smetrics, spc, sres, scalls, ExtraVars>>

MetricsInit ==
    /\ LoggerUnused
    /\ sampling = NoSampler
    /\ metrics = NewMetrics
    /\ ComponentsIdle

MetricsNext ==
    \/ \E t \in Callers, k \in Counters : RecordCall(t, k)
    \/ \E t \in Callers : reset(t)

MetricsSpec == MetricsInit /\ [][MetricsNext]_vars

\* ---------------------------------------------- LogSampler on its own
\* Threads sharing one LogSampler call should_sample directly.

\* Variant of CountTotal whose increment is lost.
CountTotal_Lost(m) == m

\* SamplerMetrics::record_sampled / record_dropped, first fetch_add: the
\* counter of the outcome.
CountOutcome(m, keep) ==
    IF keep THEN [m EXCEPT !.sampled_count = @ + 1]
    ELSE [m EXCEPT !.dropped_count = @ + 1]

\* SamplerMetrics::record_sampled / record_dropped, second fetch_add.
CountTotal(m) == [m EXCEPT !.total_count = @ + 1]

\* The call reaches get_effective_rate and, there, record_and_get_rate.
MeasuresThroughput(cfg, level, category) ==
    /\ level \notin cfg.always_sample
    /\ category \notin DOMAIN cfg.category_rates
    /\ cfg.adaptive

\* Thread t calls should_sample(level, category): the decision and the first
\* counter update.  cr is the throughput at the time of the call.  sres keeps
\* the arguments, the throughput (where the call measures it), the effective
\* rate (where the call resolves one) and the result.
ShouldSampleCall(t, level, category) ==
    /\ spc[t] = "idle"
    /\ scalls + Cardinality({u \in Callers : spc[u] # "idle"}) < MaxCalls
    /\ \E cr \in Throughputs :
          \E keep \in should_sample(sampling, level, category, cr) :
                /\ smetrics' = CountOutcome(smetrics, keep)
                /\ sres' = [sres EXCEPT ![t] =
                              [level |-> level, category |-> category,
                               throughput |-> IF MeasuresThroughput(sampling, level, category)
                                              THEN cr ELSE 0,
                               rate |-> IF level \in sampling.always_sample THEN One
                                        ELSE get_effective_rate(sampling, category, cr),
                               result |-> keep]]
    /\ spc' = [spc EXCEPT ![t] = "total"]
    /\ UNCHANGED <<LoggerVars, sampling, metrics, mret, rpc, mcalls, scalls, ExtraVars>>

\* The call of thread t counts itself in total_count and returns.
ShouldSampleReturn(t) ==
    /\ spc[t] = "total"
    /\ smetrics' = CountTotal(smetrics)
    /\ spc' = [spc EXCEPT ![t] = "idle"]
    /\ sres' = [sres EXCEPT ![t] = NoCall]
    /\ scalls' = scalls + 1
    /\ UNCHANGED <<LoggerVars, sampling, metrics, mret, rpc, mcalls, ExtraVars>>

\* LogSampler::new(config)
SamplerInit ==
    /\ LoggerUnused
    /\ sampling \in SamplingConfigs
    /\ metrics = NewMetrics
    /\ ComponentsIdle

SamplerNext ==
    \/ \E t \in Callers, level \in LoggedLevels, category \in Categories :
          ShouldSampleCall(t, level, category)
    \/ \E t \in Callers : ShouldSampleReturn(t)

SamplerSpec == SamplerInit /\ [][SamplerNext]_vars

\* What LogEntry and the appenders used on their own leave alone.
AllOtherVars == <<LoggerVars, sampling, metrics, mret, rpc, mcalls, smetrics, spc, sres, scalls>>

\* ------------------------------------- the queue and the batch under load
\* The worker loop fed by producers that never stop: records are not told
\* apart (each is written 0), no sink is registered, and the counters are
\* not followed.  Whatever the overflow policy does with a record the channel
\* has refused, a record enters the queue only through a send the channel
\* accepts.
PipelineInit ==
    /\ min_level = Info
    /\ appenders = <<>>
    /\ sender = "Some"
    /\ async_handle = TRUE
    /\ buffer_size \in 1..MaxQueue
    /\ overflow_policy \in OverflowPolicy
    /\ wpc = "recv"
    /\ alerts = <<>>
    /\ queue = <<>>
    /\ batch = <<>>
    /\ widx = 0
    /\ wlast = FALSE
    /\ lock = "free"
    /\ pc = [c \in Callers |-> "idle"]
    /\ pend = [c \in Callers |-> 0]
    /\ owner = "idle"
    /\ shutdown_ret = "none"
    /\ entries = <<>>
    /\ found_finished = "none"
    /\ faults = 0
    /\ sampling = NoSampler
    /\ metrics = NewMetrics
    /\ ComponentsIdle

\* A producer's try_send / send / send_timeout that the channel accepts.
ProducerSend ==
    /\ ~ChannelFull
    /\ queue' = ChannelPush(queue, 0)
    /\ UNCHANGED <<min_level, appenders, sender, async_handle, ConfigVars, metrics, alerts,
                   WorkerVars, lock, pc, pend, owner, shutdown_ret, entries,
                   found_finished, faults>>

\* process_batch over no sink, then batch.clear().
WorkerProcess ==
    /\ wpc = "lock"
    /\ batch' = <<>>
    /\ wpc' = "recv"
    /\ UNCHANGED <<min_level, appenders, sender, async_handle, ConfigVars, metrics, alerts,
                   queue, widx, wlast, lock, pc, pend, owner, shutdown_ret, entries,
                   found_finished, faults>>

PipelineNext ==
    \/ ProducerSend
    \/ WorkerRecv
    \/ WorkerDrain1
    \/ WorkerDrain2
    \/ WorkerProcess

PipelineSpec == PipelineInit /\ [][PipelineNext]_vars

\* ------------------------------------------- alert_and_drop on its own
\* Threads inside alert_and_drop at the same time, as callers whose records
\* all meet a full queue under AlertAndDrop are: each call is record_dropped() (one fetch_add, which hands the thread the
\* count before its increment) and then, if that count asks for it, the alert
\* with the callback.
AlertInit ==
    /\ LoggerUnused
    /\ sampling = NoSampler
    /\ metrics = NewMetrics
    /\ ComponentsIdle

\* alert_and_drop, `let dropped_count = self.metrics.record_dropped()`.  A
\* call whose count asks for no alert returns at once.
DropCount(t) ==
    /\ seen[t] = -1
    /\ metrics.dropped_count < MaxDrops
    /\ metrics' = record_dropped(metrics)
    /\ seen' = IF should_alert(metrics.dropped_count)
               THEN [seen EXCEPT ![t] = metrics.dropped_count]
               ELSE seen
    /\ UNCHANGED alerts
    /\ UNCHANGED <<min_level, appenders, sender, async_handle, overflow_policy, buffer_size,
                   queue, batch, wpc, widx, wlast, lock, pc, pend, owner, shutdown_ret,
                   entries, found_finished, faults, sampling, mret, rpc, mcalls, smetrics,
                   spc, sres, scalls, lentry, rfiles, rapp, rhist, napp, nhist>>

\* alert_and_drop, `if should_alert { eprintln!(..); callback(dropped_count + 1) }`.
DropAlert(t) ==
    /\ seen[t] # -1
    /\ alerts' = Append(alerts, seen[t] + 1)
    /\ seen' = [seen EXCEPT ![t] = -1]
    /\ UNCHANGED metrics
    /\ UNCHANGED <<min_level, appenders, sender, async_handle, overflow_policy, buffer_size,
                   queue, batch, wpc, widx, wlast, lock, pc, pend, owner, shutdown_ret,
                   entries, found_finished, faults, sampling, mret, rpc, mcalls, smetrics,
                   spc, sres, scalls, lentry, rfiles, rapp, rhist, napp, nhist>>

AlertNext ==
    \/ \E t \in Callers : DropCount(t)
    \/ \E t \in Callers : DropAlert(t)

AlertSpec == AlertInit /\ [][AlertNext]_vars

\* ------------------------------------- RotatingFileAppender on its own
\* A file name is the sequence of its dot-separated parts; a directory is a
\* function from the names of its files to their contents.  The content of a
\* log file is the number of rotations that preceded its creation, with a
\* mark telling whether it went through gzip.  One appender is the only
\* writer of its directory.
BasePath == <<"app", "log">>
GzExtension == <<"log", "gz">>
TmpExtension == <<"log", "gz", "tmp">>

\* backup_path(index): the file name followed by ".{index}".
backup_path(index) == BasePath \o <<ToString(index)>>

\* Path::with_extension: what follows the last dot of the file name is
\* replaced; a name without a dot gets the extension added.
with_extension(path, ext) ==
    IF Len(path) > 1 THEN SubSeq(path, 1, Len(path) - 1) \o ext ELSE path \o ext

exists(dir, path) == path \in DOMAIN dir

\* fs::remove_file
remove_file(dir, path) == [n \in DOMAIN dir \ {path} |-> dir[n]]

\* fs::rename: the destination is replaced; renaming a file to itself does
\* nothing.
rename(dir, from, to) ==
    IF from = to THEN dir
    ELSE [n \in (DOMAIN dir \ {from}) \cup {to} |-> IF n = to THEN dir[from] ELSE dir[n]]

\* OpenOptions::new().create(true).append(true).open(path): a missing file
\* is created, with the content given.
open_append(dir, path, content) ==
    IF exists(dir, path) THEN dir
    ELSE [n \in DOMAIN dir \cup {path} |-> IF n = path THEN content ELSE dir[n]]

Plain(gen) == [gen |-> gen, gz |-> FALSE]
Gzip(content) == [content EXCEPT !.gz = TRUE]

\* Sizes are counted in log lines.
Strategies == {[kind |-> "Never", max_bytes |-> 0], [kind |-> "Time", max_bytes |-> 0]}
              \cup {[kind |-> "Size", max_bytes |-> n] : n \in 1..MaxSize}

RotationPolicies ==
    [strategy : Strategies, max_backup_files : 0..MaxBackups, compress : BOOLEAN]

\* should_rotate: elapsed tells whether the interval of a time-based strategy
\* has passed.
should_rotate(a, elapsed) ==
    CASE a.policy.strategy.kind = "Never" -> FALSE
      [] a.policy.strategy.kind = "Size" -> a.current_size >= a.policy.strategy.max_bytes
      [] a.policy.strategy.kind = "Time" -> elapsed

\* rotate, first part: the backup of index max_backup_files is removed, in
\* its compressed and in its plain form; okc / oku tell whether the removals
\* succeed.
OldestCompressed(a) == with_extension(backup_path(a.policy.max_backup_files), GzExtension)
OldestBackup(a) == backup_path(a.policy.max_backup_files)

DeleteOldest(dir, a, okc, oku) ==
    LET d1 == IF exists(dir, OldestCompressed(a)) /\ okc
              THEN remove_file(dir, OldestCompressed(a)) ELSE dir
    IN IF exists(d1, OldestBackup(a)) /\ oku THEN remove_file(d1, OldestBackup(a)) ELSE d1

deletion_failed(dir, a, okc, oku) ==
    \/ exists(dir, OldestCompressed(a)) /\ ~okc
    \/ exists(dir, OldestBackup(a)) /\ ~oku

\* rotate, the loop `for i in (1..max_backup_files).rev()`, from index i down.
ShiftOne(dir, i) ==
    LET old_path == backup_path(i)
        new_path == backup_path(i + 1)
        old_compressed == with_extension(old_path, GzExtension)
        new_compressed == with_extension(new_path, GzExtension)
    IN IF exists(dir, old_compressed) THEN rename(dir, old_compressed, new_compressed)
       ELSE IF exists(dir, old_path) THEN rename(dir, old_path, new_path)
       ELSE dir

RECURSIVE ShiftBackups(_, _)
ShiftBackups(dir, i) == IF i < 1 THEN dir ELSE ShiftBackups(ShiftOne(dir, i), i - 1)

\* compress_file: the compressed copy is written to a temporary file, moved
\* to its final name, and the original removed; rmok tells whether that
\* removal succeeds.
compress_file(dir, path, rmok) ==
    LET gz_path == with_extension(path, GzExtension)
        temp_gz_path == with_extension(path, TmpExtension)
        d1 == open_append(remove_file(dir, temp_gz_path), temp_gz_path, Gzip(dir[path]))
        d2 == rename(d1, temp_gz_path, gz_path)
    IN IF rmok THEN remove_file(d2, path) ELSE d2

\* rotate, last part: the current file becomes backup 1 and is compressed if
\* the policy says so.
MoveCurrent(dir, a, rmok) ==
    IF exists(dir, BasePath)
    THEN LET d1 == rename(dir, BasePath, backup_path(1))
         IN IF a.policy.compress THEN compress_file(d1, backup_path(1), rmok) ELSE d1
    ELSE dir

\* with_policy(path, policy): the log file is created.
RotatingInit ==
    /\ LoggerUnused
    /\ sampling = NoSampler
    /\ metrics = NewMetrics
    /\ CountersIdle
    /\ lentry = NoEntry
    /\ \E policy \in RotationPolicies :
          rapp = [open |-> TRUE, policy |-> policy, writer |-> TRUE, current_size |-> 0,
                  deletion_failure_count |-> 0]
    /\ rfiles = open_append(<<>>, BasePath, Plain(0))
    /\ rhist = NoRotation
    /\ seen = NotDropping
    /\ NetworkIdle

\* RotatingFileAppender::append: rotation if one is due, then the write.  A
\* rotation that gives up after MAX_DELETION_FAILURES failed deletions leaves
\* the files as they are; append reopens the current file and writes to it.
RotatingAppend ==
    /\ \E elapsed, okc, oku, rmok \in BOOLEAN :
          LET due == should_rotate(rapp, elapsed)
              failed == deletion_failed(rfiles, rapp, okc, oku)
              failures == IF failed THEN rapp.deletion_failure_count + 1 ELSE 0
              aborted == failed /\ failures >= MAX_DELETION_FAILURES
              deleted == DeleteOldest(rfiles, rapp, okc, oku)
              shifted == ShiftBackups(deleted, rapp.policy.max_backup_files - 1)
              moved == MoveCurrent(shifted, rapp, rmok)
              generation == Len(rhist.rotated) + 1
          IN IF ~due
             THEN /\ rapp.current_size < MaxSize
                  /\ rapp' = [rapp EXCEPT !.current_size = @ + 1]
                  /\ UNCHANGED <<rfiles, rhist>>
             ELSE /\ rhist.attempts < MaxAttempts
                  /\ rapp' = [rapp EXCEPT !.deletion_failure_count = failures,
                                          !.current_size = 1]
                  /\ IF aborted
                     THEN /\ rfiles' = open_append(deleted, BasePath, Plain(generation))
                          /\ rhist' = [rhist EXCEPT !.attempts = @ + 1]
                     ELSE /\ rfiles' = open_append(moved, BasePath, Plain(generation))
                          /\ rhist' = [attempts |-> rhist.attempts + 1,
                                       rotated |-> Append(rhist.rotated, rfiles[BasePath])]
    /\ UNCHANGED <<AllOtherVars, lentry, seen, napp, nhist>>

RotatingNext == RotatingAppend

RotatingSpec == RotatingInit /\ [][RotatingNext]_vars

\* ---------------------------------------------- NetworkAppender on its own
\* NetworkAppender::reconnect: a new stream on success; on failure the
\* appender is left as it was.
reconnect(a, ok) == IF ok THEN [a EXCEPT !.stream = TRUE] ELSE a

\* Variant of NetworkAppender_append that tries to reconnect when it finds no
\* stream.
NetworkAppender_append_Recovers(a, id, w1, rc, w2) ==
    IF ~a.stream /\ ~a.reconnect_on_error
    THEN [app |-> a, sent |-> <<>>, reconnects |-> 0, ok |-> FALSE]
    ELSE IF a.stream /\ w1
    THEN [app |-> a, sent |-> <<id>>, reconnects |-> 0, ok |-> TRUE]
    ELSE IF ~a.reconnect_on_error
    THEN [app |-> [a EXCEPT !.stream = FALSE], sent |-> <<id>>, reconnects |-> 0, ok |-> FALSE]
    ELSE IF rc
    THEN [app |-> reconnect(a, rc), sent |-> <<id, id>>, reconnects |-> 1, ok |-> w2]
    ELSE [app |-> [a EXCEPT !.stream = FALSE], sent |-> <<id>>, reconnects |-> 1, ok |-> FALSE]

\* NetworkAppender::append of message id: what the call leaves of the
\* appender, the messages it wrote to a stream, the reconnects it attempted
\* and its result.  w1, rc and w2 are what the network does to the first
\* write_all, to the reconnect and to the resend.
NetworkAppender_append(a, id, w1, rc, w2) ==
    IF ~a.stream
    THEN [app |-> a, sent |-> <<>>, reconnects |-> 0, ok |-> FALSE]
    ELSE IF w1
    THEN [app |-> a, sent |-> <<id>>, reconnects |-> 0, ok |-> TRUE]
    ELSE LET lost == [a EXCEPT !.stream = FALSE] IN
         IF ~a.reconnect_on_error
         THEN [app |-> lost, sent |-> <<id>>, reconnects |-> 0, ok |-> FALSE]
         ELSE IF rc
         THEN [app |-> reconnect(lost, rc), sent |-> <<id, id>>, reconnects |-> 1, ok |-> w2]
         ELSE [app |-> reconnect(lost, rc), sent |-> <<id>>, reconnects |-> 1, ok |-> FALSE]

\* NetworkAppender::new, once the connection has been made.
NetworkInit ==
    /\ LoggerUnused
    /\ sampling = NoSampler
    /\ metrics = NewMetrics
    /\ CountersIdle
    /\ lentry = NoEntry
    /\ RotatingIdle
    /\ seen = NotDropping
    /\ napp = [open |-> TRUE, stream |-> TRUE, reconnect_on_error |-> TRUE]
    /\ nhist = <<>>

\* NetworkAppender::with_reconnect
with_reconnect(enable) ==
    /\ napp' = [napp EXCEPT !.reconnect_on_error = enable]
    /\ UNCHANGED <<AllOtherVars, lentry, rfiles, rapp, rhist, seen, nhist>>

\* One append call.  The history keeps, with the outcome, what the call
\* found (the stream, the flag) and what the network did to it.
NetworkAppend ==
    /\ Len(nhist) < MaxSends
    /\ \E w1, rc, w2 \in BOOLEAN :
          LET out == NetworkAppender_append(napp, Len(nhist) + 1, w1, rc, w2) IN
          /\ napp' = out.app
          /\ nhist' = Append(nhist, [had_stream |-> napp.stream,
                                     reconnect_on_error |-> napp.reconnect_on_error,
                                     write_failed |-> napp.stream /\ ~w1,
                                     connected |-> rc,
                                     sent |-> out.sent,
                                     reconnects |-> out.reconnects,
                                     ok |-> out.ok])
    /\ UNCHANGED <<AllOtherVars, lentry, rfiles, rapp, rhist, seen>>

NetworkNext ==
    \/ NetworkAppend
    \/ \E enable \in BOOLEAN : with_reconnect(enable)

NetworkSpec == NetworkInit /\ [][NetworkNext]_vars

\* ------------------------------------------------ LogEntry on its own
\* A message is a sequence of characters.  LF, CR and TAB are the raw control
\* characters; the other characters stand for themselves.
LF == "LF"
CR == "CR"
TAB == "TAB"
BACKSLASH == "\\"
Chars == {LF, CR, TAB, BACKSLASH, "n", "a"}

RECURSIVE Messages(_)
Messages(n) ==
    IF n = 0 THEN {<<>>}
    ELSE Messages(n - 1) \cup {Append(m, ch) : m \in Messages(n - 1), ch \in Chars}

\* str::replace(from, to): every occurrence of the character, left to right.
RECURSIVE replace(_, _, _)
replace(m, from, to) ==
    IF m = <<>> THEN <<>>
    ELSE (IF Head(m) = from THEN to ELSE <<Head(m)>>) \o replace(Tail(m), from, to)

\* Variant of sanitize_message without the third replace.
sanitize_message_NoTab(m) ==
    replace(replace(m, LF, <<BACKSLASH, "n">>), CR, <<BACKSLASH, "r">>)

\* LogEntry::sanitize_message: three replace passes, each over the result of
\* the one before.
sanitize_message(m) ==
    replace(replace(replace(m, LF, <<BACKSLASH, "n">>), CR, <<BACKSLASH, "r">>),
            TAB, <<BACKSLASH, "t">>)

\* LogEntry::new(level, message): the level and the other fields do not depend
\* on the message.
LogEntryNew(m) ==
    /\ lentry' = [input |-> m, message |-> sanitize_message(m), built |-> TRUE]
    /\ UNCHANGED <<AllOtherVars, rfiles, rapp, rhist, seen, napp, nhist>>

EntryInit ==
    /\ LoggerUnused
    /\ sampling = NoSampler
    /\ metrics = NewMetrics
    /\ ComponentsIdle

EntryNext == \E m \in Messages(MaxLen) : LogEntryNew(m)

EntrySpec == EntryInit /\ [][EntryNext]_vars

TypeOK ==
    /\ min_level \in LogLevel
    /\ Len(appenders) <= MaxSinks
    /\ sender \in {"Some", "None"}
    /\ Len(entries) <= MaxLogs

\* =============================================================== properties
Range(seq) == {seq[k] : k \in DOMAIN seq}

Records == DOMAIN entries

AsyncMode == buffer_size >= 0

\* append was invoked on sink s for record id.
SinkCalled(s, id) == \E k \in DOMAIN appenders[s].calls : appenders[s].calls[k].id = id

\* append was invoked on every registered sink for record id.
FannedOut(id) == \A s \in DOMAIN appenders : SinkCalled(s, id)

\* Record id is in the hands of a log call that has not returned yet.
Held(id) == \E c \in Callers : pc[c] # "idle" /\ pend[c] = id

IsCritical(id) == priority(entries[id].level) = "Critical"

\* C1: on an asynchronous logger, whatever the overflow policy and the buffer
\* size, a record of severity Error or Fatal that passed the level filter is
\* never discarded: it is in the queue or the worker's batch (and appended by
\* the worker), or it is still held by its log call, or append has been
\* invoked for it on every registered sink; a record that met a full queue has
\* been appended to every registered sink when its log call has returned.
C1_CriticalNeverDiscarded ==
    AsyncMode =>
        \A r \in Records :
            (IsCritical(r) /\ Admitted(entries[r])) =>
                /\ entries[r].fate # "dropped"
                /\ \/ r \in Range(queue)
                   \/ r \in Range(batch)
                   \/ Held(r)
                   \/ FannedOut(r) /\ entries[r].fan = Len(appenders)
                /\ (entries[r].fate = "critical" /\ ~Held(r)) =>
                       (FannedOut(r) /\ entries[r].fan = Len(appenders))

\* C1 witness: an Error record met a full queue, its log call has returned and
\* both registered sinks have been handed the record.
C1_Witness ==
    /\ AsyncMode
    /\ Len(appenders) = MaxSinks
    /\ \E r \in Records :
          /\ entries[r].level = Error
          /\ entries[r].fate = "critical"
          /\ ~Held(r)
          /\ FannedOut(r)

\* A log call by c that returned at once and left queue, batch, sinks and
\* counters as they were.
CallWasNoOp(c) ==
    /\ pc'[c] = "idle"
    /\ UNCHANGED <<queue, batch, appenders, metrics, alerts>>

\* C2: a call of log or log_with_context at severity s is a no-op (nothing
\* enqueued, no sink append, no metric change) exactly when s is below the
\* current min_level; a call that is not a no-op enqueues, counts, or goes on
\* to a synchronous write that counts the record; set_min_level installs the
\* threshold that later calls are compared with.
C2_FilterIsExact ==
    [][ /\ \A c \in Callers, lvl \in LoggedLevels :
               (Log(c, lvl) \/ LogWithContext(c, lvl)) =>
                   /\ (lvl < min_level) <=> CallWasNoOp(c)
                   /\ (lvl >= min_level) =>
                          \/ queue' # queue
                          \/ batch' # batch
                          \/ metrics' # metrics
                          \/ pc'[c] \in {"sync_wait", "crit_wait", "blocked"}
        /\ \A c \in Callers : process_sync(c) => metrics' # metrics
        /\ \A level \in MinLevels : set_min_level(level) => min_level' = level
      ]_vars

\* C2 witness: two calls at the same severity, one before and one after a
\* set_min_level: one was filtered out, the other was admitted.
C2_Witness ==
    \E r, q \in Records :
        /\ entries[r].level = entries[q].level
        /\ entries[r].fate = "filtered"
        /\ Admitted(entries[q])
        /\ ~Held(q)

\* Every log call has returned, the queue is empty and the worker is idle
\* (parked in recv, or terminated) with nothing left in its batch.
Quiescent ==
    /\ \A c \in Callers : pc[c] = "idle"
    /\ queue = <<>>
    /\ batch = <<>>
    /\ wpc \in {"none", "recv", "done"}

AdmittedRecords == {r \in Records : Admitted(entries[r])}

\* Number of append calls sink s received for record id.
TimesCalled(s, id) ==
    Cardinality({k \in DOMAIN appenders[s].calls : appenders[s].calls[k].id = id})

CalledBefore(s, r, q) ==
    \E k1, k2 \in DOMAIN appenders[s].calls :
        /\ k1 < k2
        /\ appenders[s].calls[k1].id = r
        /\ appenders[s].calls[k2].id = q

\* Records r and q come from one caller thread, r issued first.
SameThreadInOrder(r, q) == r < q /\ entries[r].thread = entries[q].thread

\* C4 as stated: on an asynchronous logger, two records of one caller thread
\* that both reach a sink are appended to it in the order they were issued.
C4_SameThreadOrder ==
    AsyncMode =>
        \A s \in DOMAIN appenders : \A r, q \in Records :
            SameThreadInOrder(r, q) => ~CalledBefore(s, q, r)

\* C4 amended: on an asynchronous logger, two records of one caller thread that
\* both reach a sink are appended to it in the order they were issued, unless
\* the earlier one went through the queue and the later one was written
\* synchronously by its log call (critical bypass of a full queue, or the
\* synchronous path taken once the queue is closed).
C4_SameThreadOrderUnlessBypass ==
    AsyncMode =>
        \A s \in DOMAIN appenders : \A r, q \in Records :
            (SameThreadInOrder(r, q) /\ CalledBefore(s, q, r)) =>
                /\ entries[r].fate = "queued"
                /\ entries[q].fate \in {"critical", "sync"}

\* C4 witness: two records of one thread both went through the queue and a
\* sink received them in issue order.
C4_Witness ==
    /\ AsyncMode
    /\ \E s \in DOMAIN appenders : \E r, q \in Records :
          /\ SameThreadInOrder(r, q)
          /\ entries[r].fate = "queued"
          /\ entries[q].fate = "queued"
          /\ CalledBefore(s, r, q)

\* C5: once every log call has returned, the queue is empty and the worker is
\* idle, dropped + logged equals the number of log calls that passed the level
\* filter (the counters are never reset here).
C5_CountersAccountForAll ==
    Quiescent =>
        metrics.dropped_count + metrics.total_logged = Cardinality(AdmittedRecords)

\* C5 witness: at quiescence one admitted record counts as dropped and
\* another as logged.
C5_Witness ==
    /\ Quiescent
    /\ Cardinality(AdmittedRecords) = MaxLogs
    /\ metrics.dropped_count = 1
    /\ metrics.total_logged = 1

\* A fan-out step: the worker's per-entry loop body or a synchronous write.
FanOutStep == WorkerAppend \/ \E c \in Callers : process_sync(c)

\* Number of sinks still holding unflushed data.
NumDirty(apps) == Cardinality({s \in DOMAIN apps : apps[s].dirty})

\* C6: a sink that fails (error or panic) in append or flush is isolated.
\* Every fan-out step invokes append on every registered sink; a synchronous
\* write returns to its caller whatever the sinks did; the worker's flush
\* reaches every sink that did not itself fail, then releases the registry and
\* goes on; the worker terminates only because the queue was closed; and every
\* record fanned out went to all the sinks.
C6_FailingSinkIsolated ==
    /\ [][ /\ FanOutStep =>
                  \A s \in DOMAIN appenders :
                      Len(appenders'[s].calls) = Len(appenders[s].calls) + 1
           /\ \A c \in Callers : process_sync(c) => pc'[c] = "idle"
           /\ WorkerAppend => (wpc' \in {"append", "flush"} /\ batch' = batch)
           /\ WorkerFlush =>
                  /\ NumDirty(appenders') <= faults' - faults
                  /\ lock' = "free"
                  /\ wpc' \in {"recv", "done"}
         ]_vars
    /\ [](wpc = "done" => sender = "None")
    /\ [](\A r \in Records : \A s \in DOMAIN appenders :
              (entries[r].fan >= 0) => (TimesCalled(s, r) = 1))

\* C6 witness: the first sink failed on a record, the second sink received
\* that record, and the worker went on to hand a later record to both sinks.
C6_Witness ==
    /\ Len(appenders) = MaxSinks
    /\ \E r, q \in Records :
          /\ r < q
          /\ \E k \in DOMAIN appenders[1].calls :
                appenders[1].calls[k].id = r /\ ~appenders[1].calls[k].ok
          /\ \E k \in DOMAIN appenders[2].calls :
                appenders[2].calls[k].id = r /\ appenders[2].calls[k].ok
          /\ entries[q].fate = "queued"
          /\ entries[q].fan = MaxSinks
          /\ CalledBefore(1, r, q)

\* A sink failed on the record fanned out by the current step.
FailedThisStep ==
    \E s \in DOMAIN appenders :
        ~appenders'[s].calls[Len(appenders'[s].calls)].ok

\* C7: each fan-out of a record (by the worker, by a synchronous log call or
\* by the critical bypass) adds exactly one to exactly one counter: to dropped
\* if at least one sink failed on the record, to logged if every sink succeeded.
C7_OneCounterPerRecord ==
    [][ FanOutStep =>
            IF FailedThisStep
            THEN metrics' = [metrics EXCEPT !.dropped_count = @ + 1]
            ELSE metrics' = [metrics EXCEPT !.total_logged = @ + 1]
      ]_vars

\* C7 witness: a record on which only the second sink failed counted as
\* dropped, and nothing counted as logged.
C7_Witness ==
    /\ Len(appenders) = MaxSinks
    /\ \E r \in Records :
          /\ \E k \in DOMAIN appenders[1].calls :
                appenders[1].calls[k].id = r /\ appenders[1].calls[k].ok
          /\ \E k \in DOMAIN appenders[2].calls :
                appenders[2].calls[k].id = r /\ ~appenders[2].calls[k].ok
    /\ metrics.dropped_count = 1
    /\ metrics.total_logged = 0

\* Every record that went through the queue has been fanned out.
AllQueuedAppended ==
    \A r \in Records : entries[r].fate = "queued" => entries[r].fan >= 0

\* C8: once the queue of an asynchronous logger has been closed (by shutdown
\* or by drop), the worker eventually has appended every record accepted into
\* the queue and has terminated, whether or not the wait of shutdown / drop
\* timed out before.
C8_WorkerDrainsAfterClose ==
    (AsyncMode /\ sender = "None") ~> (wpc = "done" /\ AllQueuedAppended)

\* C8 witness: shutdown gave up waiting and returned false, and the worker
\* nevertheless appended the queued record to the sinks and terminated.
C8_Witness ==
    /\ owner = "sd_returned"
    /\ found_finished = "timeout"
    /\ wpc = "done"
    /\ Len(appenders) >= 1
    /\ \E r \in Records : entries[r].fate = "queued" /\ FannedOut(r) /\ entries[r].fan >= 0

\* shutdown is returning true.
ShutdownReturnsTrue == owner = "sd_returned" /\ shutdown_ret = "true"

\* drop found the worker finished before DEFAULT_SHUTDOWN_TIMEOUT and is over.
DropFoundWorkerFinished == owner = "gone" /\ found_finished = "joined"

\* C9: when shutdown returns true, or when drop found the worker finished
\* within the default timeout, every record accepted into the queue has been
\* appended to every registered sink and (no sink call having failed) no sink
\* is left with unflushed data.
C9_TrueMeansDrained ==
    (AsyncMode /\ (ShutdownReturnsTrue \/ DropFoundWorkerFinished)) =>
        /\ AllQueuedAppended
        /\ \A r \in Records : entries[r].fate = "queued" => FannedOut(r)
        /\ (faults = 0) => (NumDirty(appenders) = 0)

\* The running shutdown call saw the worker terminated before its timeout, or
\* had no worker left to wait for and the worker has terminated.
WorkerTerminatedInTime ==
    \/ found_finished = "joined"
    \/ found_finished = "no_handle" /\ wpc = "done"

\* C10 as stated: shutdown returns true exactly when the worker terminated
\* within the timeout.
C10_TrueIffWorkerTerminated ==
    (AsyncMode /\ owner = "sd_returned" /\ shutdown_ret \in {"true", "false"}) =>
        ((shutdown_ret = "true") <=> WorkerTerminatedInTime)

\* A step in which shutdown reaches its result.
ShutdownResultStep == ShutdownPoll \/ ShutdownFlush

\* C10 amended: shutdown returns true exactly when it did not give up waiting
\* for the worker (the worker it waited for terminated within the timeout, or
\* no worker handle was left to wait for) and the final flush of the sinks
\* returned Ok.
C10_TrueIffJoinedAndFlushed ==
    [][ ShutdownResultStep =>
            LET gave_up == owner = "sd_wait" /\ wpc # "done"
                flush_failed == faults' > faults
            IN  /\ owner' = "sd_returned"
                /\ (shutdown_ret' = "true") <=> (~gave_up /\ ~flush_failed)
      ]_vars

\* C10 witness: the worker terminated within the timeout and was joined, yet
\* shutdown returns false because the final flush failed.
C10_Witness ==
    /\ AsyncMode
    /\ owner = "sd_returned"
    /\ found_finished = "joined"
    /\ wpc = "done"
    /\ shutdown_ret = "false"

\* The step made Logger::flush run to its end or to a failing sink: no sink is
\* left with unflushed data unless a flush call failed in this step.
FinalFlushDone == faults' > faults \/ NumDirty(appenders') = 0

\* A step in which a shutdown call reaches its return.
ShutdownReturning == owner \in {"sd_wait", "sd_flush"} /\ owner' = "sd_returned"

\* C11 as stated: every shutdown call first closes the queue, then waits for
\* the worker, then performs the final flush of the sinks before it returns.
C11_CloseWaitFlush ==
    [][ /\ ShutdownBegin => (sender' = "None" /\ appenders' = appenders)
        /\ ShutdownReturning => (sender = "None" /\ FinalFlushDone)
      ]_vars

\* C11 amended: every shutdown call first closes the queue and then waits for
\* the worker; if the wait times out it returns false at once without
\* flushing, otherwise it performs the final flush before it returns.
C11_CloseWaitFlushUnlessTimeout ==
    /\ [][ /\ ShutdownBegin =>
                 (sender' = "None" /\ async_handle' = FALSE /\ appenders' = appenders)
          /\ ShutdownReturning =>
                 /\ sender = "None"
                 /\ IF owner = "sd_wait" /\ wpc # "done"
                    THEN shutdown_ret' = "false" /\ appenders' = appenders
                    ELSE FinalFlushDone
        ]_vars
    /\ [](owner \in {"sd_wait", "sd_flush", "sd_returned"} => sender = "None")

\* C11 witness: shutdown timed out and is returning false while a sink still
\* holds unflushed data.
C11_Witness ==
    /\ owner = "sd_returned"
    /\ found_finished = "timeout"
    /\ shutdown_ret = "false"
    /\ NumDirty(appenders) > 0

\* The append calls every sink has received.
SinkCalls(apps) == [s \in DOMAIN apps |-> apps[s].calls]

\* A step in which a shutdown call that found no worker handle (the logger is
\* synchronous, or an earlier shutdown took the handle) reaches its return.
NoHandleShutdownReturning ==
    owner = "sd_flush" /\ found_finished = "no_handle" /\ owner' = "sd_returned"

\* C12 as stated: a shutdown call made after the worker is gone returns true,
\* appends no record to any sink and changes no metric.
C12_RepeatedShutdownIsNoOpSuccess ==
    [][ (NoHandleShutdownReturning /\ wpc \in {"none", "done"}) =>
            /\ shutdown_ret' = "true"
            /\ SinkCalls(appenders') = SinkCalls(appenders)
            /\ metrics' = metrics
      ]_vars

\* C12 amended: a shutdown call made when no worker handle is left (after a
\* previous shutdown, or on a synchronous logger) appends no record to any
\* sink, changes no metric, leaves queue and worker alone, and returns true
\* exactly when its final flush of the sinks returned Ok.
C12_RepeatedShutdownOnlyFlushes ==
    [][ /\ (ShutdownBegin /\ ~async_handle) =>
               /\ owner' = "sd_flush"
               /\ UNCHANGED <<appenders, metrics, queue, batch, wpc, sender, async_handle>>
        /\ NoHandleShutdownReturning =>
               /\ (shutdown_ret' = "true") <=> (faults' = faults)
               /\ SinkCalls(appenders') = SinkCalls(appenders)
               /\ UNCHANGED <<metrics, queue, batch, wpc, sender, async_handle>>
      ]_vars

\* C12 witness: the worker was joined by a first shutdown; a second shutdown
\* on the same asynchronous logger is returning true, the sinks still holding
\* exactly the record fanned out before.
C12_Witness ==
    /\ AsyncMode
    /\ owner = "sd_returned"
    /\ found_finished = "no_handle"
    /\ wpc = "done"
    /\ shutdown_ret = "true"
    /\ Len(appenders) >= 1
    /\ \E r \in Records : entries[r].fate = "queued" /\ FannedOut(r)

\* A caller's Logger::flush call.
FlushCall == \E c \in Callers : flush(c)

\* C13: flush() calls flush on every registered sink even when an earlier
\* sink's flush fails: after the call the only sinks still holding unflushed
\* data are sinks whose own flush failed in this call.
C13_FlushReachesEverySink ==
    [][ FlushCall => NumDirty(appenders') <= faults' - faults ]_vars

\* C14: on an asynchronous logger whose queue was closed by shutdown, a log
\* call at or above min_level is discarded: its record (the one that found no
\* sender) is never handed to a sink and never counted.
C14_LogAfterCloseDiscarded ==
    AsyncMode =>
        \A r \in Records :
            entries[r].fate = "sync" =>
                /\ entries[r].fan < 0
                /\ \A s \in DOMAIN appenders : ~SinkCalled(s, r)

\* Record r was rejected by the sampler.
SampledOut(r) == entries[r].fate = "sampled_out"

\* Records that passed the level filter and the sampler.
PassedRecords == {r \in Records : entries[r].fate \notin {"filtered", "sampled_out"}}

OverflowCall(c, lvl) ==
    /\ Log(c, lvl) \/ LogWithContext(c, lvl)
    /\ lvl >= min_level
    /\ sender = "Some"
    /\ ChannelFull

OverflowDrops(es) == {r \in DOMAIN es : es[r].fate = "dropped"}

AlertingPolicy == overflow_policy \in {"AlertAndDrop", "DropOldest"}

\* C17: under AlertAndDrop and DropOldest every non-critical record that meets
\* a full queue is discarded and counted in dropped, and the alert fires
\* exactly when that drop is the first one ever or a 1000th one, carrying the
\* cumulative drop count.
C17_AlertOnFirstAndEveryThousandth ==
    [][ \A c \in Callers, lvl \in LoggedLevels :
            (OverflowCall(c, lvl) /\ AlertingPolicy /\ lvl \notin {Error, Fatal}) =>
                LET n == Cardinality(OverflowDrops(entries')) IN
                /\ entries'[Len(entries')].fate = "dropped"
                /\ metrics'.dropped_count = metrics.dropped_count + 1
                /\ UNCHANGED <<queue, batch, appenders>>
                /\ IF n = 1 \/ n % ALERT_PERIOD = 0
                   THEN alerts' = Append(alerts, metrics'.dropped_count)
                   ELSE alerts' = alerts
      ]_vars

\* The fan-out of record r met a failing sink.
WriteFailed(r) ==
    \E s \in DOMAIN appenders : \E k \in DOMAIN appenders[s].calls :
        appenders[s].calls[k].id = r /\ ~appenders[s].calls[k].ok

\* The blocked send of caller c ends in this step with the record enqueued.
SendEndsEnqueued(c) ==
    /\ pend[c] \in Range(queue') \union Range(batch')
    /\ entries'[pend[c]].fate = "queued"
    /\ metrics' = metrics
    /\ alerts' = alerts

\* The blocked send of caller c ends in this step by timeout: the record is
\* dropped and counted, with at most one alert carrying the new count.
SendEndsDropped(c) ==
    /\ entries'[pend[c]].fate = "dropped"
    /\ metrics' = [metrics EXCEPT !.dropped_count = @ + 1]
    /\ UNCHANGED <<queue, batch, appenders>>
    /\ \/ alerts' = alerts
       \/ /\ alerts' = Append(alerts, metrics'.dropped_count)
          /\ metrics'.dropped_count = 1 \/ metrics'.dropped_count % ALERT_PERIOD = 0

\* C18: under BlockWithTimeout a non-critical record that met a full queue
\* leaves the blocked send in exactly one of two ways: enqueued (no counter
\* moves), or dropped on timeout (dropped + 1, throttled alert, queue
\* untouched).  A record dropped this way is never in the queue, the batch or
\* a sink, dropped counts exactly the timed-out records and the records a sink
\* failed on, and a blocked caller can always leave through the timeout.
C18_BlockWithTimeoutEnqueuesOrDrops ==
    /\ [][ overflow_policy = "BlockWithTimeout" =>
             \A c \in Callers :
                 (pc[c] = "blocked" /\ pc'[c] # "blocked") =>
                     /\ pc'[c] = "idle"
                     /\ SendEndsEnqueued(c) \/ SendEndsDropped(c)
         ]_vars
    /\ [](overflow_policy = "BlockWithTimeout" =>
             /\ \A r \in OverflowDrops(entries) :
                    /\ r \notin Range(queue) \union Range(batch)
                    /\ \A s \in DOMAIN appenders : ~SinkCalled(s, r)
                    /\ ~IsCritical(r)
             /\ metrics.dropped_count =
                    Cardinality(OverflowDrops(entries))
                    + Cardinality({r \in Records : WriteFailed(r)})
             /\ \A c \in Callers : pc[c] = "blocked" => ENABLED SendTimeout(c))

\* C18 witness: a record blocked under BlockWithTimeout was dropped on timeout
\* and the first-drop alert was raised.
C18_Witness ==
    /\ overflow_policy = "BlockWithTimeout"
    /\ metrics.block_events = 1
    /\ metrics.dropped_count = 1
    /\ OverflowDrops(entries) # {}
    /\ alerts = <<1>>

\* A record that waited under BlockWithTimeout was enqueued and written.
C18_EnqueuedAfterWait ==
    /\ overflow_policy = "BlockWithTimeout"
    /\ metrics.block_events = 1
    /\ metrics.dropped_count = 0
    /\ \A r \in Records : entries[r].fate = "queued" /\ entries[r].fan >= 0
    /\ Len(entries) = MaxLogs

BlockingPolicy == overflow_policy \in {"Block", "BlockWithTimeout"}

\* C19: block_events grows only by one, only in a log call whose non-critical
\* record meets a full queue under Block or BlockWithTimeout, and in every
\* such call; nothing that happens while the caller waits moves it.  So it
\* stays zero under the other policies, and under the blocking ones it equals
\* the overflow events that were not critical bypasses.
C19_BlockEventsOncePerOverflow ==
    /\ [][ /\ metrics'.block_events \in {metrics.block_events, metrics.block_events + 1}
           /\ metrics'.block_events # metrics.block_events <=>
                  \E c \in Callers, lvl \in LoggedLevels :
                      /\ OverflowCall(c, lvl)
                      /\ BlockingPolicy
                      /\ lvl \notin {Error, Fatal}
         ]_vars
    /\ [](metrics.block_events =
             IF BlockingPolicy
             THEN metrics.queue_full_events - metrics.critical_logs_preserved
             ELSE 0)

\* C19 witness: one overflow under a blocking policy was counted once, and the
\* caller is still waiting while the worker is writing its batch.
C19_Witness ==
    /\ BlockingPolicy
    /\ metrics.block_events = 1
    /\ \E c \in Callers : pc[c] = "blocked"
    /\ lock = "worker"

\* Caller c is inside a log call, waiting for queue space or for the sink
\* registry lock.
Waiting(c) ==
    \/ pc[c] = "blocked"
    \/ pc[c] \in {"sync_wait", "crit_wait"} /\ lock # "free"

\* C20: on an asynchronous logger under DropNewest, DropOldest or AlertAndDrop
\* no log call for a non-critical record ever waits, neither for queue space
\* nor for the sink registry lock.
C20_DropPoliciesNeverWait ==
    (AsyncMode /\ overflow_policy \in {"DropNewest", "DropOldest", "AlertAndDrop"}) =>
        \A c \in Callers : (pc[c] # "idle" /\ ~IsCritical(pend[c])) => ~Waiting(c)

\* The step is one of the worker's process_batch steps.
WorkerBatchStep == <<wpc, widx>>' # <<wpc, widx>>

SeqOf(s, r) ==
    LET k == CHOOSE k \in DOMAIN appenders[s].calls : appenders[s].calls[k].id = r
    IN appenders[s].calls[k].seq

SyncMode == buffer_size = -1

\* C22: on a synchronous logger every admitted record whose log call has
\* returned was appended exactly once to every registered sink, the sinks
\* taken in registration order; and a sink is only ever called by the thread
\* that issued the record, inside its log call.
C22_SyncWritesEverySinkInOrder ==
    /\ [](SyncMode =>
             \A r \in AdmittedRecords :
                 \/ Held(r) /\ \A s \in DOMAIN appenders : ~SinkCalled(s, r)
                 \/ /\ ~Held(r)
                    /\ entries[r].fan = Len(appenders)
                    /\ \A s \in DOMAIN appenders : TimesCalled(s, r) = 1
                    /\ \A s, t \in DOMAIN appenders : s < t => SeqOf(s, r) < SeqOf(t, r))
    /\ [][ (SyncMode /\ TotalCalls(appenders') # TotalCalls(appenders)) =>
             \E c \in Callers :
                 /\ pc[c] = "sync_wait"
                 /\ entries[pend[c]].thread = c
                 /\ \A s \in DOMAIN appenders :
                        appenders'[s].calls[Len(appenders'[s].calls)].id = pend[c]
                 /\ pc'[c] = "idle"
         ]_vars

\* C22 witness: a synchronous logger with two sinks, one info call returned,
\* both sinks hold exactly that record, the first sink served first.
C22_Witness ==
    /\ SyncMode
    /\ Len(appenders) = MaxSinks
    /\ Len(entries) = 1
    /\ entries[1].level = Info
    /\ ~Held(1)
    /\ \A s \in DOMAIN appenders : SinkCalls(appenders)[s] # <<>> /\ TimesCalled(s, 1) = 1
    /\ SeqOf(1, 1) < SeqOf(2, 1)

\* The records of the worker's batch that no sink has been offered yet.
Unappended(b) == {j \in DOMAIN b : entries[b[j]].fan < 0}

\* Some sink is flushed in this step.
SomeSinkFlushed == \E s \in DOMAIN appenders : appenders[s].dirty /\ ~appenders'[s].dirty

\* C23: while the worker processes a batch, each of its append steps takes the
\* first record of the batch not yet appended and offers it to every sink in
\* registration order; no sink is flushed before the last record of the batch
\* has been offered to all sinks; then one step flushes every sink (a sink
\* stays unflushed only if its own flush failed) and ends the batch.
C23_BatchAppendedThenFlushedOnce ==
    /\ [][ (WorkerBatchStep /\ TotalCalls(appenders') # TotalCalls(appenders)) =>
             LET j == CHOOSE j \in Unappended(batch) :
                          \A i \in Unappended(batch) : j <= i
             IN /\ Unappended(batch) # {}
                /\ batch' = batch
                /\ entries'[batch[j]].fan = Len(appenders)
                /\ \A s \in DOMAIN appenders :
                       LET last == appenders'[s].calls[Len(appenders'[s].calls)]
                       IN /\ Len(appenders'[s].calls) = Len(appenders[s].calls) + 1
                          /\ last.id = batch[j]
                          /\ last.seq = TotalCalls(appenders) + s
                /\ ~SomeSinkFlushed
         ]_vars
    /\ [][ (lock = "worker" /\ (SomeSinkFlushed \/ lock' = "free")) =>
             /\ Unappended(batch) = {}
             /\ NumDirty(appenders') <= faults' - faults
             /\ lock' = "free"
             /\ batch' = <<>>
             /\ TotalCalls(appenders') = TotalCalls(appenders)
         ]_vars

\* C23 witness: a batch of two records has been offered to two sinks, first
\* record first and first sink first, and no sink has been flushed yet.
C23_Witness ==
    /\ wpc = "flush"
    /\ Len(batch) = 2
    /\ Len(appenders) = MaxSinks
    /\ \A s \in DOMAIN appenders : appenders[s].dirty
    /\ SeqOf(1, batch[1]) < SeqOf(2, batch[1])
    /\ SeqOf(2, batch[1]) < SeqOf(1, batch[2])
    /\ SeqOf(1, batch[2]) < SeqOf(2, batch[2])

\* The records accepted into the queue and not yet through a batch flush, in
\* the order the worker will reach them: its batch, then the channel buffer.
Pipeline(b, q) == b \o q

\* C24: the way from the queue to the sinks is first in, first out.  A record
\* accepted into the queue joins the end of the pipeline, moving records from
\* the channel into the batch (recv, both try_recv drains) never changes the
\* order, the worker always appends the first record of the pipeline that has
\* not been appended yet, and only a batch that was appended completely leaves
\* the pipeline; so every sink is handed the queued records in acceptance order.
C24_QueueIsFifo ==
    /\ [][ LET P == Pipeline(batch, queue)
               Q == Pipeline(batch', queue')
           IN \/ Q = P
              \/ /\ Len(Q) = Len(P) + 1
                 /\ SubSeq(Q, 1, Len(P)) = P
                 /\ Q[Len(Q)] \notin Range(P)
                 /\ entries'[Q[Len(Q)]].fan < 0
              \/ /\ batch # <<>>
                 /\ Q = queue
                 /\ Unappended(batch) = {}
         ]_vars
    /\ [][ (WorkerBatchStep /\ TotalCalls(appenders') # TotalCalls(appenders)) =>
             LET P == Pipeline(batch, queue)
                 j == CHOOSE j \in Unappended(P) : \A i \in Unappended(P) : j <= i
             IN \A s \in DOMAIN appenders :
                    appenders'[s].calls[Len(appenders'[s].calls)].id = P[j]
         ]_vars
    /\ [](LET P == Pipeline(batch, queue)
          IN \A i, j \in DOMAIN P :
                i < j =>
                    /\ P[i] # P[j]
                    /\ entries[P[j]].fan >= 0 => entries[P[i]].fan >= 0
                    /\ \A s \in DOMAIN appenders :
                           SinkCalled(s, P[j]) =>
                               CalledBefore(s, P[i], P[j]) /\ ~CalledBefore(s, P[j], P[i]))

\* C24 witness: the second record was accepted only after its caller had
\* waited for space, was collected into the same batch as the first, and the
\* sinks received the two in acceptance order.
C24_Witness ==
    /\ Len(batch) = 2
    /\ metrics.block_events = 1
    /\ Len(appenders) >= 1
    /\ \A s \in DOMAIN appenders : CalledBefore(s, batch[1], batch[2])

\* The records written through the critical bypass.
BypassRecords == {r \in Records : entries[r].fate = "critical"}

\* C25: queue_full_events grows by one in exactly the log calls whose enqueue
\* attempt finds the queue full, whatever the priority and the policy, and
\* critical_logs_preserved by one in exactly those of Critical priority, so
\* the two counters equal the numbers of such calls; the write of a critical
\* overflow on which no sink fails adds one to logged and nothing to dropped.
C25_OverflowCountersAreExact ==
    /\ [][ LET full == \E c \in Callers, lvl \in LoggedLevels : OverflowCall(c, lvl)
               crit == \E c \in Callers, lvl \in LoggedLevels :
                           OverflowCall(c, lvl) /\ lvl \in {Error, Fatal}
           IN /\ metrics'.queue_full_events =
                     metrics.queue_full_events + (IF full THEN 1 ELSE 0)
              /\ metrics'.critical_logs_preserved =
                     metrics.critical_logs_preserved + (IF crit THEN 1 ELSE 0)
         ]_vars
    /\ [][ \A c \in Callers :
               (pc[c] = "crit_wait" /\ pc'[c] = "idle" /\ faults' = faults) =>
                   metrics' = [metrics EXCEPT !.total_logged = @ + 1]
         ]_vars
    /\ [](/\ metrics.critical_logs_preserved = Cardinality(BypassRecords)
          /\ metrics.queue_full_events =
                 IF BlockingPolicy
                 THEN metrics.block_events + Cardinality(BypassRecords)
                 ELSE Cardinality(OverflowDrops(entries)) + Cardinality(BypassRecords)
          /\ \A r \in BypassRecords : IsCritical(r) /\ AsyncMode)

\* C25 witness: an Error record met a full queue, was written through the
\* bypass to a sink that accepted it, and is counted as one queue-full event,
\* one preserved critical record, logged, not dropped.
C25_Witness ==
    /\ metrics.queue_full_events = 1
    /\ metrics.critical_logs_preserved = 1
    /\ metrics.dropped_count = 0
    /\ \E r \in BypassRecords :
          /\ entries[r].level = Error
          /\ entries[r].fan >= 1
          /\ metrics.total_logged >= 1
          /\ ~WriteFailed(r)

\* A store of reset() hits counter k in this step.
ResetStores(k) == \E t \in Callers : rpc'[t] # rpc[t] /\ k = ResetOrder[rpc[t] + 1]

\* C26: each of the five counters moves only by an increment of exactly one,
\* made by one record_* call that returns the value before the increment and
\* touches no other counter, or by a store of reset(), which sets it to zero;
\* reset() stores to all five counters, one after the other; and no increment
\* is lost: a counter always equals the number of record_* calls made on it
\* since it was last reset.
C26_CountersOnlyIncrementOrReset ==
    /\ [][ \A k \in Counters :
               \/ metrics'[k] = metrics[k]
               \/ /\ metrics'[k] = metrics[k] + 1
                  /\ \E t \in Callers : mret'[t] = metrics[k] /\ rpc[t] = 0
                  /\ \A j \in Counters \ {k} : metrics'[j] = metrics[j]
                  /\ rpc' = rpc
               \/ /\ metrics'[k] = 0
                  /\ ResetStores(k)
         ]_vars
    /\ [][ \A t \in Callers :
               rpc'[t] # rpc[t] =>
                   /\ rpc'[t] = (rpc[t] + 1) % Len(ResetOrder)
                   /\ metrics'[ResetOrder[rpc[t] + 1]] = 0
         ]_vars
    /\ [](\A k \in Counters : metrics[k] = mcalls[k] /\ metrics[k] >= 0)
    /\ Range(ResetOrder) = Counters

\* C26 witness: two threads incremented the same counter, the second call
\* returned the value left by the first, and a later reset() has completed
\* and left all five counters at zero.
C26_Witness ==
    /\ mret[1] = 0
    /\ mret[2] = 1
    /\ metrics = NewMetrics
    /\ \A t \in Callers : rpc[t] = 0

\* Thread t makes its should_sample call in this step.
Calls(t) == spc[t] = "idle" /\ spc'[t] = "total"

\* Thread t returns from should_sample in this step.
Returns(t) == spc[t] = "total" /\ spc'[t] = "idle"

\* C27: a should_sample call for a level of the always-sample set returns
\* true and is recorded as sampled (sampled_count and then total_count grow by
\* one, dropped_count does not move), whatever the base rate, the category
\* override and the adaptive parameters and throughput.
C27_AlwaysSampleLevelsAccepted ==
    /\ [][ \A t \in Callers :
               (Calls(t) /\ sres'[t].level \in sampling.always_sample) =>
                   /\ sres'[t].result
                   /\ smetrics' = [smetrics EXCEPT !.sampled_count = @ + 1]
         ]_vars
    /\ [][ \A t \in Callers :
               (Returns(t) /\ sres[t].level \in sampling.always_sample) =>
                   smetrics' = [smetrics EXCEPT !.total_count = @ + 1]
         ]_vars

\* C27 witness: with base rate 0, a category override of 0 and adaptive
\* sampling enabled, an Error call in the overridden category was accepted.
C27_Witness ==
    /\ sampling.rate = Zero
    /\ sampling.adaptive
    /\ sampling.category_rates # <<>>
    /\ sampling.category_rates["db"] = Zero
    /\ \E t \in Callers :
          /\ spc[t] = "total"
          /\ sres[t].level = Error
          /\ sres[t].category = "db"
          /\ sres[t].result
    /\ smetrics.sampled_count = 1
    /\ smetrics.dropped_count = 0

FracEq(a, b) == a[1] * b[2] = b[1] * a[2]

\* The result of a call agrees with the fast paths for its effective rate.
DeterministicAtExtremes(call) ==
    /\ FracLE(One, call.rate) => call.result
    /\ FracLE(call.rate, Zero) => ~call.result

HasOverride(category) == category \in DOMAIN sampling.category_rates

\* C28 as stated: for a level outside the always-sample set the call uses the
\* category override when the category has one and the base rate otherwise,
\* and returns true at a rate >= 1.0 and false at a rate <= 0.0.
C28_OverrideElseBaseRate ==
    [][ \A t \in Callers :
            (Calls(t) /\ sres'[t].level \notin sampling.always_sample) =>
                /\ FracEq(sres'[t].rate,
                          IF HasOverride(sres'[t].category)
                          THEN sampling.category_rates[sres'[t].category]
                          ELSE sampling.rate)
                /\ DeterministicAtExtremes(sres'[t])
      ]_vars

\* The base rate scaled by threshold / throughput, not below the floor.
ScaledRate(throughput) ==
    LET scaled == <<sampling.rate[1] * sampling.adaptive_threshold,
                    sampling.rate[2] * throughput>>
    IN IF FracLE(scaled, sampling.adaptive_min_rate)
       THEN sampling.adaptive_min_rate
       ELSE scaled

\* C28 amended: for a level outside the always-sample set the call uses the
\* category override when the category has one; otherwise, when adaptive
\* sampling is enabled and the measured throughput exceeds the threshold, the
\* base rate scaled down by threshold / throughput and held at the floor; and
\* the base rate in every other case.  It returns true at an effective rate
\* >= 1.0 and false at an effective rate <= 0.0.
C28_OverrideElseAdaptiveElseBaseRate ==
    [][ \A t \in Callers :
            (Calls(t) /\ sres'[t].level \notin sampling.always_sample) =>
                /\ FracEq(sres'[t].rate,
                          IF HasOverride(sres'[t].category)
                          THEN sampling.category_rates[sres'[t].category]
                          ELSE IF sampling.adaptive
                                  /\ sres'[t].throughput > sampling.adaptive_threshold
                          THEN ScaledRate(sres'[t].throughput)
                          ELSE sampling.rate)
                /\ DeterministicAtExtremes(sres'[t])
      ]_vars

\* C28 witness: base rate 1.0, adaptive sampling with no floor, throughput
\* above the threshold: an Info call without category was rejected.
C28_Witness ==
    /\ sampling.rate = One
    /\ sampling.adaptive
    /\ sampling.adaptive_min_rate = Zero
    /\ \E t \in Callers :
          /\ spc[t] = "total"
          /\ sres[t].level = Info
          /\ sres[t].category = "none"
          /\ sres[t].throughput > sampling.adaptive_threshold
          /\ ~sres[t].result

\* C29 as stated: with adaptive sampling enabled, the effective rate a call
\* applies is never below adaptive_min_rate.
C29_RateNeverBelowFloor ==
    [][ \A t \in Callers :
            (Calls(t) /\ sampling.adaptive
                      /\ sres'[t].level \notin sampling.always_sample) =>
                FracLE(sampling.adaptive_min_rate, sres'[t].rate)
      ]_vars

NoCallInProgress == \A t \in Callers : spc[t] = "idle"

\* C30: whenever no should_sample call is in progress, total_count equals
\* sampled_count + dropped_count and equals the number of calls that have
\* returned, however the calls of the threads were interleaved.
C30_SamplerCountersBalance ==
    NoCallInProgress =>
        /\ smetrics.total_count = smetrics.sampled_count + smetrics.dropped_count
        /\ smetrics.total_count = scalls

\* C30 witness: two calls have returned, one accepted and one rejected, and
\* the counters balance.
C30_Witness ==
    /\ NoCallInProgress
    /\ scalls = 2
    /\ smetrics.sampled_count = 1
    /\ smetrics.dropped_count = 1
    /\ smetrics.total_count = 2

\* Two calls are in progress at once: both have counted their outcome, neither
\* has counted itself in total_count yet.
C30_CallsOverlap ==
    /\ \A t \in Callers : spc[t] = "total"
    /\ smetrics.total_count < smetrics.sampled_count + smetrics.dropped_count

\* ------------------------------------------------------------------- C31
\* The escape LogEntry::new is to store for one character of the input.
Escaped(ch) ==
    CASE ch = LF -> <<BACKSLASH, "n">>
      [] ch = CR -> <<BACKSLASH, "r">>
      [] ch = TAB -> <<BACKSLASH, "t">>
      [] OTHER -> <<ch>>

\* The escapes of the characters of m, in order.
RECURSIVE EscapedAll(_)
EscapedAll(m) == IF m = <<>> THEN <<>> ELSE Escaped(Head(m)) \o EscapedAll(Tail(m))

\* C31: the message stored by LogEntry::new holds no raw newline, carriage
\* return or tab; it is the input with each of these characters replaced by
\* its two-character escape and every other character kept, in order.
C31_StoredMessageIsOneLine ==
    lentry.built =>
        /\ \A i \in DOMAIN lentry.message : lentry.message[i] \notin {LF, CR, TAB}
        /\ lentry.message = EscapedAll(lentry.input)

\* An entry was built from a message holding all three control characters,
\* each stored as two characters.
C31_Witness ==
    /\ lentry.built
    /\ {LF, CR, TAB} \subseteq {lentry.input[i] : i \in DOMAIN lentry.input}
    /\ Len(lentry.message) = 2 * Len(lentry.input)

\* ------------------------------------------------------------------- C32
\* C32: the queue of an asynchronous logger never holds more records than the
\* configured buffer size and the worker's batch never holds more than
\* BATCH_SIZE records.
C32_QueueAndBatchBounded ==
    /\ buffer_size >= 0 => Len(queue) <= buffer_size
    /\ Len(batch) <= BATCH_SIZE

\* The batch is at its cap while the queue is full again.
C32_Witness ==
    /\ Len(batch) = BATCH_SIZE
    /\ Len(queue) = buffer_size
    /\ buffer_size > 1

\* ------------------------------------------------------------------- C33
\* The rotated files of the directory: every file but the current log file.
Backups == DOMAIN rfiles \ {BasePath}

\* C33: without compression the number of rotated backup files never exceeds
\* max_backup_files, whatever max_backup_files is.
C33_BackupsWithinLimit ==
    (rapp.open /\ ~rapp.policy.compress) =>
        Cardinality(Backups) <= rapp.policy.max_backup_files

\* The same bound for the policies that keep at least one backup.
C33_BackupsWithinPositiveLimit ==
    (rapp.open /\ ~rapp.policy.compress /\ rapp.policy.max_backup_files >= 1) =>
        Cardinality(Backups) <= rapp.policy.max_backup_files

\* With room for at least two backups, the limit is reached.
C33_LimitReached ==
    /\ rapp.open /\ ~rapp.policy.compress
    /\ rapp.policy.max_backup_files >= 2
    /\ Cardinality(Backups) = rapp.policy.max_backup_files

\* ------------------------------------------------------------------- C40
\* The content c, compressed or not, is still in some rotated file.
Retained(c) == \E n \in Backups : rfiles[n].gen = c.gen

\* The last k files rotated out.
MostRecent(k) ==
    {rhist.rotated[i] : i \in (Len(rhist.rotated) - k + 1)..Len(rhist.rotated)}

\* C40: with compression and max_backup_files = K >= 2, once K rotations are
\* done the K files rotated out last are all retained, each under the name of
\* its index.
C40_CompressedBackupsRetained ==
    (rapp.open /\ rapp.policy.compress /\ rapp.policy.max_backup_files >= 2
     /\ Len(rhist.rotated) >= rapp.policy.max_backup_files) =>
        \A c \in MostRecent(rapp.policy.max_backup_files) : Retained(c)

\* Without compression the files rotated out last are retained.
C40_PlainBackupsRetained ==
    (rapp.open /\ ~rapp.policy.compress /\ rapp.policy.max_backup_files >= 2
     /\ Len(rhist.rotated) >= rapp.policy.max_backup_files) =>
        \A c \in MostRecent(rapp.policy.max_backup_files) : Retained(c)

\* ------------------------------------------------------------------- C35
\* Caller c is inside a log call: blocked in send, or about to write through
\* the registry lock.
InsideCall(c) == pc[c] # "idle"

\* Some thread of the engine can take its next step.
SomeThreadCanStep == ENABLED (WorkerNext \/ \E c \in Callers : CallerStep(c))

\* C35: while a caller is inside a log call some thread can make progress,
\* and every caller inside a log call eventually returns from it.
C35_NoDeadlock ==
    /\ []((\E c \in Callers : InsideCall(c)) => SomeThreadCanStep)
    /\ \A c \in Callers : InsideCall(c) ~> ~InsideCall(c)

\* A caller is blocked in send while the worker holds the registry lock, and
\* another caller waits for that lock.
C35_Witness ==
    /\ lock = "worker"
    /\ \E c, d \in Callers :
          /\ pc[c] = "blocked"
          /\ pc[d] \in {"crit_wait", "sync_wait"}

\* ------------------------------------------------------------------- C36
\* The records sink s has received, in the order of the append calls.
Received(s) == [k \in DOMAIN appenders[s].calls |-> appenders[s].calls[k].id]

\* C36: sinks are registered before the first record is admitted; as long as
\* no sink call has failed, whenever the registry lock is free all sinks have
\* received the same sequence of records.
C36_SinksAgreeWhenLockFree ==
    (lock = "free" /\ faults = 0) =>
        \A s, t \in DOMAIN appenders : Received(s) = Received(t)

\* Two sinks have each received a record from the worker and a record written
\* by the critical bypass, and the lock is free again.
C36_Witness ==
    /\ lock = "free" /\ faults = 0
    /\ Len(appenders) = 2
    /\ \A s \in DOMAIN appenders :
          /\ \E k \in DOMAIN Received(s) : entries[Received(s)[k]].fate = "queued"
          /\ \E k \in DOMAIN Received(s) : entries[Received(s)[k]].fate = "critical"

\* ------------------------------------------------------------------- C37
\* Number of places of the queue and of the worker's batch that hold record r.
InFlight(r) ==
    Cardinality({i \in DOMAIN queue : queue[i] = r})
        + Cardinality({i \in DOMAIN batch : batch[i] = r})

\* Number of append calls made on sink s for record r.
TimesAppended(s, r) ==
    Cardinality({k \in DOMAIN appenders[s].calls : appenders[s].calls[k].id = r})

Delivered(r) == \E s \in DOMAIN appenders : SinkCalled(s, r)

\* C37: an admitted record is enqueued at most once, and no sink is called
\* twice for it; a record the overflow policy dropped, or that its caller
\* still holds, is neither in the queue or the batch nor at any sink; a
\* record written by the critical bypass is never in the queue or the batch;
\* and, as long as no sink call has failed, the dropped counter counts exactly
\* the records the overflow policy dropped.
C37_OneFatePerRecord ==
    /\ \A r \in Records :
          /\ InFlight(r) <= 1
          /\ \A s \in DOMAIN appenders : TimesAppended(s, r) <= 1
          /\ entries[r].fate \in {"dropped", "blocked", "filtered"} =>
                InFlight(r) = 0 /\ ~Delivered(r)
          /\ entries[r].fate = "critical" => InFlight(r) = 0
          /\ entries[r].fate = "queued" => InFlight(r) = 1 \/ entries[r].fan >= 0
    /\ faults = 0 => metrics.dropped_count = Cardinality(OverflowDrops(entries))

\* Three records with three different fates: one went through the queue to
\* the sink, one was dropped by the overflow policy, one was written by the
\* critical bypass.
C37_Witness ==
    /\ Len(appenders) = 1
    /\ \E r \in Records : entries[r].fate = "queued" /\ Delivered(r)
    /\ \E r \in Records : entries[r].fate = "dropped"
    /\ \E r \in Records : entries[r].fate = "critical" /\ Delivered(r)

\* C38: when threads drop records under AlertAndDrop at the same time (no sink
\* fails, the counters are not reset), the callback is called exactly once for
\* each of the drop counts 1, 1000, 2000, ... reached, with that count: every
\* such count reached is either in the calls made or held by exactly one
\* thread about to make the call, never both and never twice, and no other
\* count is ever reported.
IsThreshold(n) == n = 1 \/ n % ALERT_PERIOD = 0

TimesAlerted(n) == Cardinality({i \in DOMAIN alerts : alerts[i] = n})

AboutToAlert(n) == Cardinality({t \in Callers : seen[t] = n - 1})

C38_EachThresholdAlertedOnce ==
    /\ \A n \in 1..metrics.dropped_count :
          IsThreshold(n) => TimesAlerted(n) + AboutToAlert(n) = 1
    /\ \A i \in DOMAIN alerts :
          IsThreshold(alerts[i]) /\ alerts[i] <= metrics.dropped_count
    /\ \A t \in Callers : seen[t] # -1 => IsThreshold(seen[t] + 1)

\* Two thresholds beyond the first have been reported, and the calls came
\* out of order: the thread that counted the later one called back first.
C38_Witness ==
    /\ metrics.dropped_count >= 2 * ALERT_PERIOD
    /\ Len(alerts) = 3
    /\ \E i, j \in DOMAIN alerts : i < j /\ alerts[i] > alerts[j]
    /\ \A t \in Callers : seen[t] = -1

\* C34: with preserve_high set, a Warn record that meets a full queue gets
\* up to high_priority_retry_count further enqueue attempts before the
\* overflow policy is applied to it: the policy is never applied to a Warn
\* record by the very attempt that first found the queue full.
LastEntry(es) == es[Len(es)]

C34_HighPriorityRetried ==
    [][(/\ DefaultPriorityConfig.preserve_high
        /\ DefaultPriorityConfig.high_priority_retry_count > 0
        /\ sender = "Some"
        /\ ChannelFull
        /\ Len(entries') = Len(entries) + 1
        /\ LastEntry(entries').level = Warn)
       => LastEntry(entries').fate \notin {"dropped", "blocked"}]_vars

\* C39: with reconnect_on_error set, an append whose write fails makes
\* exactly one reconnect attempt and, the connection made, writes the same
\* message once more; no call reconnects more than once or when the flag is
\* clear.  Once a reconnect attempt has failed the appender has no stream,
\* and every later append returns an error having written nothing and
\* attempted no reconnect: the appender does not recover.
ReconnectFailed(h) == h.reconnects = 1 /\ ~h.connected

C39_OneReconnectThenDead ==
    /\ \A i \in DOMAIN nhist :
          LET h == nhist[i] IN
          /\ h.reconnects = IF h.write_failed /\ h.reconnect_on_error THEN 1 ELSE 0
          /\ h.write_failed /\ h.reconnect_on_error /\ h.connected => h.sent = <<i, i>>
          /\ ReconnectFailed(h) => h.sent = <<i>> /\ ~h.ok
          /\ \A j \in DOMAIN nhist :
                j > i /\ ReconnectFailed(h) =>
                   /\ ~nhist[j].had_stream
                   /\ nhist[j].sent = <<>>
                   /\ nhist[j].reconnects = 0
                   /\ ~nhist[j].ok
    /\ (\E i \in DOMAIN nhist : ReconnectFailed(nhist[i])) => ~napp.stream

\* A write failed and the reconnect and the resend went through; a later
\* write failed and the reconnect failed too; an append after that was made
\* with reconnect_on_error still set.
C39_Witness ==
    \E i, j, k \in DOMAIN nhist :
        /\ i < j /\ j < k
        /\ nhist[i].write_failed /\ nhist[i].sent = <<i, i>> /\ nhist[i].ok
        /\ ReconnectFailed(nhist[j])
        /\ nhist[k].reconnect_on_error /\ ~nhist[k].ok
====
